---- MODULE Spec2Model ----
(***************************************************************************)
(* A model of the MDBY query executor (src/src/query/executor.rs) over the *)
(* collection store (src/src/storage), the schema registry                 *)
(* (src/src/schema/mod.rs) and identifier validation                       *)
(* (src/src/validation.rs).                                                *)
(*                                                                         *)
(* Strings that the code inspects character by character (collection       *)
(* names, document ids, string values, bodies) are sequences of one-       *)
(* character strings.  Field names are only ever compared as a whole and   *)
(* are TLA+ strings.  A float is a number of tenths (Float 42.0 is 420).   *)
(***************************************************************************)
EXTENDS Integers, Sequences, FiniteSets, TLC

(***************************************************************************)
(* Characters                                                              *)
(***************************************************************************)
Lower == {"a","b","c","d","e","f","g","h","i","j","k","l","m",
          "n","o","p","q","r","s","t","u","v","w","x","y","z"}
Upper == {"A","B","C","D","E","F","G","H","I","J","K","L","M",
          "N","O","P","Q","R","S","T","U","V","W","X","Y","Z"}
Digit == {"0","1","2","3","4","5","6","7","8","9"}

\* char::is_ascii_alphanumeric
is_ascii_alphanumeric(c) == c \in Lower \cup Upper \cup Digit

\* char::to_lowercase on the letters the model uses in upper case
to_lowercase_char(c) ==
    CASE c = "C" -> "c" [] c = "O" -> "o" [] c = "N" -> "n"
      [] c = "A" -> "a" [] c = "T" -> "t"
      [] OTHER -> c

to_lowercase(s) == [i \in 1..Len(s) |-> to_lowercase_char(s[i])]

DigitValue(c) ==
    CASE c = "0" -> 0 [] c = "1" -> 1 [] c = "2" -> 2 [] c = "3" -> 3
      [] c = "4" -> 4 [] c = "5" -> 5 [] c = "6" -> 6 [] c = "7" -> 7
      [] c = "8" -> 8 [] c = "9" -> 9

(***************************************************************************)
(* Identifier validation (validation.rs)                                   *)
(***************************************************************************)
MAX_IDENTIFIER_LENGTH == 255

RESERVED_NAMES ==
    { <<".">>, <<".",".">>, <<"c","o","n">>, <<"p","r","n">>,
      <<"a","u","x">>, <<"n","u","l">> }
    \cup { <<"c","o","m",d>> : d \in Digit \ {"0"} }
    \cup { <<"l","p","t",d>> : d \in Digit \ {"0"} }

\* Ok, or the first error the checks of validate_identifier reach.
validate_identifier(name) ==
    IF Len(name) = 0 THEN "Empty"
    ELSE IF Len(name) > MAX_IDENTIFIER_LENGTH THEN "TooLong"
    ELSE IF \E i \in 1..Len(name) :
               \/ ~is_ascii_alphanumeric(name[i]) /\ name[i] # "_" /\ name[i] # "-"
               \/ i = 1 /\ name[i] \in {"-", "_"}
         THEN "InvalidIdentifier"
    ELSE IF to_lowercase(name) \in RESERVED_NAMES THEN "Reserved"
    ELSE "Ok"

validate_collection_name(name) == validate_identifier(name)

validate_document_id(id) == validate_identifier(id)

validate_view_name(name) == validate_identifier(name)

\* str::contains
contains(name, pat) ==
    \E i \in 1..(Len(name) - Len(pat) + 1) : SubSeq(name, i, i + Len(pat) - 1) = pat

\* name.split('.').next(): the part before the first dot
base_name(name) ==
    LET dots == { i \in 1..Len(name) : name[i] = "." }
    IN  IF dots = {} THEN name
        ELSE SubSeq(name, 1, (CHOOSE i \in dots : \A j \in dots : i <= j) - 1)

validate_template_name(name) ==
    IF Len(name) = 0 THEN "Empty"
    ELSE IF Len(name) > MAX_IDENTIFIER_LENGTH THEN "TooLong"
    ELSE IF \/ contains(name, <<".", ".">>)
            \/ contains(name, <<"/">>)
            \/ contains(name, <<"\\">>)
         THEN "InvalidIdentifier"
    ELSE IF \E i \in 1..Len(name) :
               \/ /\ ~is_ascii_alphanumeric(name[i])
                  /\ name[i] \notin {"_", "-", "."}
               \/ i = 1 /\ name[i] \in {".", "-", "_"}
         THEN "InvalidIdentifier"
    ELSE IF to_lowercase(base_name(name)) \in RESERVED_NAMES THEN "Reserved"
    ELSE "Ok"

(***************************************************************************)
(* Values and literals (storage/document.rs, mdql ast.rs)                  *)
(***************************************************************************)
Null == [t |-> "Null"]
VBool(b) == [t |-> "Bool", b |-> b]
VInt(i) == [t |-> "Int", i |-> i]
VFloat(tenths) == [t |-> "Float", f |-> tenths]
VString(s) == [t |-> "String", s |-> s]
VArray(a) == [t |-> "Array", a |-> a]
VObject(o) == [t |-> "Object", o |-> o]

LNull == [l |-> "Null"]
LBool(b) == [l |-> "Bool", b |-> b]
LInt(i) == [l |-> "Int", i |-> i]
LFloat(tenths) == [l |-> "Float", f |-> tenths]
LString(s) == [l |-> "String", s |-> s]
LArray(a) == [l |-> "Array", a |-> a]

RECURSIVE literal_to_value(_)
literal_to_value(lit) ==
    CASE lit.l = "Null" -> Null
      [] lit.l = "Bool" -> VBool(lit.b)
      [] lit.l = "Int" -> VInt(lit.i)
      [] lit.l = "Float" -> VFloat(lit.f)
      [] lit.l = "String" -> VString(lit.s)
      [] lit.l = "Array" ->
            VArray([i \in 1..Len(lit.a) |-> literal_to_value(lit.a[i])])

(***************************************************************************)
(* Documents (storage/document.rs)                                         *)
(***************************************************************************)
EmptyFields == [k \in {} |-> Null]

\* HashMap::insert
FieldsInsert(fields, k, val) ==
    [x \in DOMAIN fields \cup {k} |-> IF x = k THEN val ELSE fields[x]]

\* Document::new; path is always "<id>.md" and is not kept apart from the id
Document_new(id) == [id |-> id, fields |-> EmptyFields, body |-> <<>>]

(***************************************************************************)
(* Frontmatter rendering and parsing (storage/frontmatter.rs)              *)
(* A file's content is the YAML mapping, when there is one, and the text   *)
(* after it.                                                               *)
(***************************************************************************)
RECURSIVE value_to_yaml(_)
value_to_yaml(val) ==
    CASE val.t = "Null" -> [y |-> "Null"]
      [] val.t = "Bool" -> [y |-> "Bool", b |-> val.b]
      [] val.t = "Int" -> [y |-> "Number", int |-> TRUE, n |-> val.i]
      [] val.t = "Float" -> [y |-> "Number", int |-> FALSE, n |-> val.f]
      [] val.t = "String" -> [y |-> "String", s |-> val.s]
      [] val.t = "Array" ->
            [y |-> "Sequence", a |-> [i \in 1..Len(val.a) |-> value_to_yaml(val.a[i])]]

RECURSIVE yaml_value_to_value(_)
yaml_value_to_value(yv) ==
    CASE yv.y = "Null" -> Null
      [] yv.y = "Bool" -> VBool(yv.b)
      [] yv.y = "Number" -> IF yv.int THEN VInt(yv.n) ELSE VFloat(yv.n)
      [] yv.y = "String" -> VString(yv.s)
      [] yv.y = "Sequence" ->
            VArray([i \in 1..Len(yv.a) |-> yaml_value_to_value(yv.a[i])])

\* frontmatter::render: no frontmatter block at all when the field map is empty
render(fields, body) ==
    IF DOMAIN fields = {}
    THEN [fm |-> FALSE, yaml |-> EmptyFields, text |-> body]
    ELSE [fm |-> TRUE,
          yaml |-> [k \in DOMAIN fields |-> value_to_yaml(fields[k])],
          text |-> body]

Document_render(doc) == render(doc.fields, doc.body)

Whitespace == {"\n", " "}

RECURSIVE TrimStart(_, _)
TrimStart(s, chars) ==
    IF s # <<>> /\ Head(s) \in chars THEN TrimStart(Tail(s), chars) ELSE s

\* frontmatter::parse, on a content that render wrote.  Without a frontmatter
\* block the whole content, trimmed at the start, is the body (the bodies of
\* the model never start with "---"); with one, the body is what follows the
\* closing delimiter, less its leading newlines.
parse(content) ==
    IF ~content.fm
    THEN [fields |-> EmptyFields, body |-> TrimStart(content.text, Whitespace)]
    ELSE [fields |-> [k \in DOMAIN content.yaml |-> yaml_value_to_value(content.yaml[k])],
          body |-> TrimStart(content.text, {"\n"})]

Document_parse(id, content) ==
    [id |-> id, fields |-> parse(content).fields, body |-> parse(content).body]

(***************************************************************************)
(* Schema validation (schema/mod.rs)                                       *)
(***************************************************************************)
TString == [ft |-> "String"]
TInt == [ft |-> "Int"]
TFloat == [ft |-> "Float"]
TBool == [ft |-> "Bool"]
TDate == [ft |-> "Date"]
TDateTime == [ft |-> "DateTime"]
TObject == [ft |-> "Object"]
TArray(inner) == [ft |-> "Array", inner |-> inner]
TRef(name) == [ft |-> "Ref", name |-> name]

\* str::split on any of the characters of seps
RECURSIVE Split(_, _)
Split(s, seps) ==
    IF \A i \in 1..Len(s) : s[i] \notin seps
    THEN <<s>>
    ELSE LET p == CHOOSE i \in 1..Len(s) :
                      s[i] \in seps /\ \A j \in 1..(i - 1) : s[j] \notin seps
         IN <<SubSeq(s, 1, p - 1)>> \o Split(SubSeq(s, p + 1, Len(s)), seps)

RECURSIVE DigitsValue(_)
DigitsValue(s) ==
    IF s = <<>> THEN 0
    ELSE 10 * DigitsValue(SubSeq(s, 1, Len(s) - 1)) + DigitValue(s[Len(s)])

\* str::parse::<u32>: an optional "+", then digits only; -1 stands for Err
ParseU32(s) ==
    LET digits == IF s # <<>> /\ Head(s) = "+" THEN Tail(s) ELSE s
    IN IF digits # <<>> /\ \A i \in 1..Len(digits) : digits[i] \in Digit
       THEN DigitsValue(digits)
       ELSE -1

is_valid_date(s) ==
    /\ Len(s) = 10
    /\ LET parts == Split(s, {"-"})
       IN /\ Len(parts) = 3
          /\ ParseU32(parts[1]) >= 0
          /\ ParseU32(parts[2]) >= 1 /\ ParseU32(parts[2]) <= 12
          /\ ParseU32(parts[3]) >= 1 /\ ParseU32(parts[3]) <= 31

is_valid_datetime(s) ==
    /\ Len(s) >= 10
    /\ is_valid_date(SubSeq(s, 1, 10))
    /\ \/ Len(s) = 10
       \/ /\ s[11] \in {"T", " "}
          /\ Len(s) >= 16
          /\ LET time_part == SubSeq(s, 12, Len(s))
                 has_tz == \E i \in 1..Len(time_part) : time_part[i] \in {"Z", "+", "-"}
                 time_base == IF has_tz THEN Split(time_part, {"Z", "+"})[1] ELSE time_part
                 time_parts == Split(time_base, {":"})
             IN /\ Len(time_parts) >= 2
                /\ ParseU32(time_parts[1]) >= 0 /\ ParseU32(time_parts[1]) <= 23
                /\ ParseU32(time_parts[2]) >= 0 /\ ParseU32(time_parts[2]) <= 59

\* check_type_match with a string taken for an integer
check_type_match_lenient(field_type, val) ==
    CASE val.t = "Null" -> TRUE
      [] field_type.ft = "Int" /\ val.t = "Float" -> val.f % 10 = 0
      [] field_type.ft = "Int" /\ val.t \in {"Int", "String"} -> TRUE
      [] field_type.ft = "Bool" /\ val.t = "Bool" -> TRUE
      [] field_type.ft = "Date" /\ val.t = "String" -> is_valid_date(val.s)
      [] OTHER -> field_type.ft \notin {"Int", "Bool", "Date"}

\* check_type_match with the elements of an array left unchecked
check_type_match_shallow(field_type, val) ==
    CASE val.t = "Null" -> TRUE
      [] field_type.ft = "Int" /\ val.t = "Float" -> val.f % 10 = 0
      [] field_type.ft = "Float" /\ val.t = "Int" -> TRUE
      [] field_type.ft = "Date" /\ val.t = "String" -> is_valid_date(val.s)
      [] field_type.ft = "DateTime" /\ val.t = "String" -> is_valid_datetime(val.s)
      [] field_type.ft = "Ref" /\ val.t = "String" -> TRUE
      [] OTHER -> field_type.ft = val.t

RECURSIVE check_type_match(_, _)
check_type_match(field_type, val) ==
    CASE val.t = "Null" -> TRUE
      [] field_type.ft = "String" /\ val.t = "String" -> TRUE
      [] field_type.ft = "Int" /\ val.t = "Int" -> TRUE
      [] field_type.ft = "Int" /\ val.t = "Float" -> val.f % 10 = 0
      [] field_type.ft = "Float" /\ val.t = "Float" -> TRUE
      [] field_type.ft = "Float" /\ val.t = "Int" -> TRUE
      [] field_type.ft = "Bool" /\ val.t = "Bool" -> TRUE
      [] field_type.ft = "Date" /\ val.t = "String" -> is_valid_date(val.s)
      [] field_type.ft = "DateTime" /\ val.t = "String" -> is_valid_datetime(val.s)
      [] field_type.ft = "Object" /\ val.t = "Object" -> TRUE
      [] field_type.ft = "Array" /\ val.t = "Array" ->
            \A i \in 1..Len(val.a) : check_type_match(field_type.inner, val.a[i])
      [] field_type.ft = "Ref" /\ val.t = "String" -> TRUE
      [] OTHER -> FALSE

\* Schema::new; the field map is filled by the caller
Schema_new(name) == [name |-> name, fields |-> EmptyFields]

\* Schema::validate with a null value counted as a missing field
Schema_validate_nonnull(schema, doc) ==
    LET missing == { f \in DOMAIN schema.fields :
                        /\ schema.fields[f].required
                        /\ (f \notin DOMAIN doc.fields \/ doc.fields[f] = Null) }
    IN IF missing # {}
       THEN { [kind |-> "MissingRequired", field |-> f] : f \in missing }
       ELSE { [kind |-> "Ok", field |-> ""] }

\* Schema::validate: the errors it can return, or {"Ok"}.  The field map is a
\* HashMap, so which of several failing fields is reported is not determined;
\* every required field is checked before any type.
Schema_validate(schema, doc) ==
    LET missing == { f \in DOMAIN schema.fields :
                        schema.fields[f].required /\ f \notin DOMAIN doc.fields }
        mismatch == { f \in DOMAIN schema.fields :
                        /\ f \in DOMAIN doc.fields
                        /\ ~check_type_match(schema.fields[f].field_type, doc.fields[f]) }
    IN IF missing # {}
       THEN { [kind |-> "MissingRequired", field |-> f] : f \in missing }
       ELSE IF mismatch # {}
       THEN { [kind |-> "TypeMismatch", field |-> f] : f \in mismatch }
       ELSE { [kind |-> "Ok", field |-> ""] }

(***************************************************************************)
(* The collection store (storage/collection.rs).  `cols` maps the name of  *)
(* every collection directory that exists to its files, in the order a     *)
(* directory scan yields them; a file is [name, content] for <name>.md.    *)
(***************************************************************************)
NoCollections == [c \in {} |-> <<>>]

Collection_exists(cols, name) == name \in DOMAIN cols

\* create_dir_all: creates the directory when it is missing
Collection_ensure_exists(cols, name) ==
    IF name \in DOMAIN cols
    THEN cols
    ELSE [c \in DOMAIN cols \cup {name} |-> IF c = name THEN <<>> ELSE cols[c]]

FileExists(cols, name, id) ==
    name \in DOMAIN cols /\ \E i \in 1..Len(cols[name]) : cols[name][i].name = id

InsertAt(seq, pos, x) == SubSeq(seq, 1, pos - 1) \o <<x>> \o SubSeq(seq, pos, Len(seq))

RemoveAt(seq, pos) == SubSeq(seq, 1, pos - 1) \o SubSeq(seq, pos + 1, Len(seq))

\* fs::write: the directories a write of <id>.md can leave.  An existing file
\* is overwritten in place; where a new file shows up in a scan is up to the
\* file system.
FsWrite(cols, name, id, content) ==
    LET file == [name |-> id, content |-> content]
        dir == cols[name]
    IN IF FileExists(cols, name, id)
       THEN { [cols EXCEPT ![name] =
                  [i \in 1..Len(dir) |-> IF dir[i].name = id THEN file ELSE dir[i]]] }
       ELSE { [cols EXCEPT ![name] = InsertAt(dir, pos, file)] : pos \in 1..(Len(dir) + 1) }

\* Collection::list: every file of the directory, parsed
Collection_list(cols, name) ==
    IF name \notin DOMAIN cols
    THEN <<>>
    ELSE [i \in 1..Len(cols[name]) |->
              Document_parse(cols[name][i].name, cols[name][i].content)]

\* Collection::insert without the check for an existing file
Collection_insert_overwrite(cols, name, doc) ==
    { [cols |-> c, err |-> "Ok"] :
         c \in FsWrite(Collection_ensure_exists(cols, name), name, doc.id,
                       Document_render(doc)) }

\* Collection::insert: the outcomes [cols, err]
Collection_insert(cols, name, doc) ==
    LET made == Collection_ensure_exists(cols, name)
    IN IF FileExists(made, name, doc.id)
       THEN { [cols |-> made, err |-> "DocumentExists"] }
       ELSE { [cols |-> c, err |-> "Ok"] :
                 c \in FsWrite(made, name, doc.id, Document_render(doc)) }

\* Collection::upsert: the directories it can leave
Collection_upsert(cols, name, doc) ==
    FsWrite(Collection_ensure_exists(cols, name), name, doc.id, Document_render(doc))

\* Collection::delete
Collection_delete(cols, name, id) ==
    IF FileExists(cols, name, id)
    THEN [cols EXCEPT ![name] =
             RemoveAt(cols[name], CHOOSE i \in 1..Len(cols[name]) : cols[name][i].name = id)]
    ELSE cols

(***************************************************************************)
(* Ordering of integers and strings (Ord::cmp), as -1, 0, 1                *)
(***************************************************************************)
AsciiOrder ==
    <<"\n", " ", "+", "-", ".",
      "0", "1", "2", "3", "4", "5", "6", "7", "8", "9", ":",
      "A", "B", "C", "D", "E", "F", "G", "H", "I", "J", "K", "L", "M",
      "N", "O", "P", "Q", "R", "S", "T", "U", "V", "W", "X", "Y", "Z", "_",
      "a", "b", "c", "d", "e", "f", "g", "h", "i", "j", "k", "l", "m",
      "n", "o", "p", "q", "r", "s", "t", "u", "v", "w", "x", "y", "z">>

Ord(c) == CHOOSE i \in 1..Len(AsciiOrder) : AsciiOrder[i] = c

IntCmp(a, b) == IF a < b THEN -1 ELSE IF a > b THEN 1 ELSE 0

RECURSIVE StrCmp(_, _)
StrCmp(a, b) ==
    IF a = <<>> /\ b = <<>> THEN 0
    ELSE IF a = <<>> THEN -1
    ELSE IF b = <<>> THEN 1
    ELSE IF Head(a) # Head(b) THEN IntCmp(Ord(Head(a)), Ord(Head(b)))
    ELSE StrCmp(Tail(a), Tail(b))

BoolCmp(a, b) == IntCmp(IF a THEN 1 ELSE 0, IF b THEN 1 ELSE 0)

(***************************************************************************)
(* Expressions and their evaluation (mdql ast.rs, query/filter.rs)         *)
(***************************************************************************)
ELiteral(lit) == [e |-> "Literal", lit |-> lit]
EField(name) == [e |-> "Column", col |-> [c |-> "Field", name |-> name]]
ESpecial(sf) == [e |-> "Column", col |-> [c |-> "Special", sf |-> sf]]
EBinaryOp(left, op, right) == [e |-> "BinaryOp", left |-> left, op |-> op, right |-> right]
EUnaryOp(op, expr) == [e |-> "UnaryOp", op |-> op, expr |-> expr]
EIsNull(expr, negated) == [e |-> "IsNull", expr |-> expr, negated |-> negated]
EBetween(expr, low, high, negated) ==
    [e |-> "Between", expr |-> expr, low |-> low, high |-> high, negated |-> negated]
ELike(expr, pattern, negated) ==
    [e |-> "Like", expr |-> expr, pattern |-> pattern, negated |-> negated]

\* document.rs 78-80: pattern.replace('%', ".*").replace('_', ".")
RECURSIVE regex_pattern(_)
regex_pattern(pattern) ==
    IF pattern = <<>> THEN <<>>
    ELSE (CASE Head(pattern) = "%" -> <<".", "*">>
            [] Head(pattern) = "_" -> <<".">>
            [] OTHER -> <<Head(pattern)>>) \o regex_pattern(Tail(pattern))

\* a character of a regular expression against a character of the text: the
\* dot is any character but the newline, a letter is itself
regex_char(c, ch) == IF c = "." THEN ch # "\n" ELSE c = ch

\* Regex::is_match of ^re$ on the text, for expressions of letters, dots and
\* starred dots
RECURSIVE regex_is_match(_, _)
regex_is_match(re, text) ==
    IF re = <<>> THEN text = <<>>
    ELSE IF Len(re) >= 2 /\ re[2] = "*"
    THEN \/ regex_is_match(SubSeq(re, 3, Len(re)), text)
         \/ /\ text # <<>>
            /\ regex_char(re[1], Head(text))
            /\ regex_is_match(re, Tail(text))
    ELSE /\ text # <<>>
         /\ regex_char(re[1], Head(text))
         /\ regex_is_match(Tail(re), Tail(text))

\* Value::matches_pattern
matches_pattern(val, pattern) ==
    val.t = "String" /\ regex_is_match(regex_pattern(pattern), val.s)

RValue(val) == [r |-> "Value", v |-> val]
RBool(b) == [r |-> "Bool", b |-> b]
RNull == [r |-> "Null"]

\* the lookup of a name in the field map alone
get_field_of_map(doc, name) ==
    IF name \in DOMAIN doc.fields THEN <<doc.fields[name]>> ELSE <<>>

\* Document::get_field, as an option: <<>> or <<value>>.  The column `id`
\* names the document id (tests/integration.rs, test_select_where_by_id);
\* every other name reads the field map.
get_field(doc, name) ==
    IF name = "id" THEN <<VString(doc.id)>>
    ELSE IF name \in DOMAIN doc.fields THEN <<doc.fields[name]>>
    ELSE <<>>

\* ExprResult::is_truthy
is_truthy(res) ==
    CASE res.r = "Bool" -> res.b
      [] res.r = "Value" /\ res.v.t = "Bool" -> res.v.b
      [] res.r = "Value" /\ res.v.t = "Null" -> FALSE
      [] res.r = "Null" -> FALSE
      [] OTHER -> TRUE

\* values_equal with an integer equal to the float of the same magnitude
values_equal_numeric(a, b) ==
    CASE a.r = "Null" /\ b.r = "Null" -> TRUE
      [] a.r = "Value" /\ b.r = "Null" -> a.v.t = "Null"
      [] a.r = "Null" /\ b.r = "Value" -> b.v.t = "Null"
      [] a.r = "Value" /\ b.r = "Value" ->
            \/ a.v = b.v
            \/ a.v.t = "Int" /\ b.v.t = "Float" /\ 10 * a.v.i = b.v.f
            \/ a.v.t = "Float" /\ b.v.t = "Int" /\ a.v.f = 10 * b.v.i
      [] OTHER -> FALSE

\* filter::values_equal
values_equal(a, b) ==
    CASE a.r = "Null" /\ b.r = "Null" -> TRUE
      [] a.r = "Value" /\ b.r = "Null" -> a.v.t = "Null"
      [] a.r = "Null" /\ b.r = "Value" -> b.v.t = "Null"
      [] a.r = "Bool" /\ b.r = "Bool" -> a.b = b.b
      [] a.r = "Value" /\ b.r = "Value" -> a.v = b.v
      [] a.r = "Bool" /\ b.r = "Value" -> b.v.t = "Bool" /\ a.b = b.v.b
      [] a.r = "Value" /\ b.r = "Bool" -> a.v.t = "Bool" /\ a.v.b = b.b
      [] OTHER -> FALSE

\* the comparator without the pairings of an Int with a Float
filter_compare_values_same_type(a, b) ==
    IF a.r # "Value" \/ b.r # "Value" THEN 0
    ELSE CASE a.v.t = "Int" /\ b.v.t = "Int" -> IntCmp(a.v.i, b.v.i)
           [] a.v.t = "Float" /\ b.v.t = "Float" -> IntCmp(a.v.f, b.v.f)
           [] a.v.t = "String" /\ b.v.t = "String" -> StrCmp(a.v.s, b.v.s)
           [] OTHER -> 0

\* filter::compare_values; an Int is compared with a Float as a float
filter_compare_values(a, b) ==
    IF a.r # "Value" \/ b.r # "Value" THEN 0
    ELSE CASE a.v.t = "Int" /\ b.v.t = "Int" -> IntCmp(a.v.i, b.v.i)
           [] a.v.t = "Float" /\ b.v.t = "Float" -> IntCmp(a.v.f, b.v.f)
           [] a.v.t = "String" /\ b.v.t = "String" -> StrCmp(a.v.s, b.v.s)
           [] a.v.t = "Int" /\ b.v.t = "Float" -> IntCmp(10 * a.v.i, b.v.f)
           [] a.v.t = "Float" /\ b.v.t = "Int" -> IntCmp(a.v.f, 10 * b.v.i)
           [] OTHER -> 0

\* filter::evaluate_binary_op, for the logical and comparison operators
evaluate_binary_op(left, op, right) ==
    CASE op = "And" -> RBool(is_truthy(left) /\ is_truthy(right))
      [] op = "Or" -> RBool(is_truthy(left) \/ is_truthy(right))
      [] op = "Eq" -> RBool(values_equal(left, right))
      [] op = "Ne" -> RBool(~values_equal(left, right))
      [] op = "Lt" -> RBool(filter_compare_values(left, right) < 0)
      [] op = "Le" -> RBool(filter_compare_values(left, right) <= 0)
      [] op = "Gt" -> RBool(filter_compare_values(left, right) > 0)
      [] op = "Ge" -> RBool(filter_compare_values(left, right) >= 0)

\* filter::evaluate_expr
RECURSIVE evaluate_expr(_, _)
evaluate_expr(expr, doc) ==
    CASE expr.e = "Literal" -> RValue(literal_to_value(expr.lit))
      [] expr.e = "Column" ->
            ( CASE expr.col.c = "Star" -> RNull
                [] expr.col.c = "Field" ->
                      IF get_field(doc, expr.col.name) = <<>>
                      THEN RNull
                      ELSE RValue(get_field(doc, expr.col.name)[1])
                [] expr.col.c = "Special" ->
                      ( CASE expr.col.sf = "Id" -> RValue(VString(doc.id))
                          [] expr.col.sf = "Body" -> RValue(VString(doc.body))
                          [] expr.col.sf = "Path" ->
                                RValue(VString(doc.id \o <<".", "m", "d">>))
                          [] OTHER -> RNull ) )
      [] expr.e = "BinaryOp" ->
            evaluate_binary_op(evaluate_expr(expr.left, doc), expr.op,
                               evaluate_expr(expr.right, doc))
      [] expr.e = "UnaryOp" ->
            LET val == evaluate_expr(expr.expr, doc)
            IN ( CASE expr.op = "Not" -> RBool(~is_truthy(val))
                   [] expr.op = "Neg" ->
                         IF val.r = "Value" /\ val.v.t = "Int"
                         THEN RValue(VInt(0 - val.v.i))
                         ELSE IF val.r = "Value" /\ val.v.t = "Float"
                         THEN RValue(VFloat(0 - val.v.f))
                         ELSE RNull )
      [] expr.e = "Like" ->
            LET val == evaluate_expr(expr.expr, doc)
                matches == val.r = "Value" /\ matches_pattern(val.v, expr.pattern)
            IN RBool(IF expr.negated THEN ~matches ELSE matches)
      [] expr.e = "IsNull" ->
            LET val == evaluate_expr(expr.expr, doc)
                is_null == val.r = "Null" \/ (val.r = "Value" /\ val.v.t = "Null")
            IN RBool(IF expr.negated THEN ~is_null ELSE is_null)
      [] expr.e = "Between" ->
            LET val == evaluate_expr(expr.expr, doc)
                in_range ==
                    /\ filter_compare_values(val, evaluate_expr(expr.low, doc)) >= 0
                    /\ filter_compare_values(val, evaluate_expr(expr.high, doc)) <= 0
            IN RBool(IF expr.negated THEN ~in_range ELSE in_range)

\* filter::evaluate
evaluate(expr, doc) ==
    LET res == evaluate_expr(expr, doc)
    IN CASE res.r = "Bool" -> res.b
         [] res.r = "Value" /\ res.v.t = "Bool" -> res.v.b
         [] OTHER -> FALSE

(***************************************************************************)
(* The executor (query/executor.rs).  A database is [cols, schemas,        *)
(* commits]: the collection directories, the schema registry and the       *)
(* number of commits signalled to the git repository.  Each execute_*      *)
(* gives the set of outcomes [db, result] the statement can have.          *)
(***************************************************************************)
None == <<>>
Some(x) == <<x>>

Ok(kind, n, docs) == [ok |-> TRUE, kind |-> kind, n |-> n, docs |-> docs, field |-> ""]
Err(kind, field) == [ok |-> FALSE, kind |-> kind, n |-> 0, docs |-> <<>>, field |-> field]

Outcome(db, result) == [db |-> db, result |-> result]

\* Repository::commit
git_commit(db) == [db EXCEPT !.commits = @ + 1]

Max(S) == CHOOSE x \in S : \A y \in S : y <= x
Min(S) == CHOOSE x \in S : \A y \in S : x <= y

\* an id made up when the statement gives none
insert_id_auto(stmt) ==
    LET idx == { i \in 1..Len(stmt.columns) :
                    /\ stmt.columns[i] = "id"
                    /\ i <= Len(stmt.values)
                    /\ stmt.values[i].l = "String" }
    IN IF idx = {} THEN Some(<<"1">>) ELSE Some(stmt.values[Min(idx)].s)

\* executor.rs 90-97: the value at the position of the first column named
\* `id`, when it is there and a string literal
insert_id(stmt) ==
    LET idx == { i \in 1..Len(stmt.columns) : stmt.columns[i] = "id" }
    IN IF idx = {} \/ Min(idx) > Len(stmt.values) THEN None
       ELSE IF stmt.values[Min(idx)].l # "String" THEN None
       ELSE Some(stmt.values[Min(idx)].s)

\* executor.rs 100-112: the document built from the other columns, each zipped
\* with the value at its position; a later column of the same name overwrites
insert_document(stmt, id) ==
    LET used == { i \in 1..Len(stmt.columns) :
                     stmt.columns[i] # "id" /\ i <= Len(stmt.values) }
        last(k) == Max({ i \in used : stmt.columns[i] = k })
    IN [id |-> id,
        fields |-> [k \in { stmt.columns[i] : i \in used } |->
                       literal_to_value(stmt.values[last(k)])],
        body |-> IF stmt.body = None THEN <<>> ELSE stmt.body[1]]

execute_insert(db, stmt) ==
    IF validate_collection_name(stmt.into) # "Ok"
    THEN { Outcome(db, Err(validate_collection_name(stmt.into), "")) }
    ELSE
    LET made == [db EXCEPT !.cols = Collection_ensure_exists(db.cols, stmt.into)]
        id == insert_id(stmt)
    IN IF id = None
       THEN { Outcome(made, Err("MissingDocumentId", "")) }
       ELSE IF validate_document_id(id[1]) # "Ok"
       THEN { Outcome(made, Err(validate_document_id(id[1]), "")) }
       ELSE
       LET doc == insert_document(stmt, id[1])
           checked == IF stmt.into \in DOMAIN db.schemas
                      THEN Schema_validate(db.schemas[stmt.into], doc)
                      ELSE { [kind |-> "Ok", field |-> ""] }
       IN UNION { IF v.kind # "Ok"
                  THEN { Outcome(made, Err(v.kind, v.field)) }
                  ELSE { IF w.err # "Ok"
                         THEN Outcome([made EXCEPT !.cols = w.cols], Err(w.err, ""))
                         ELSE Outcome(git_commit([made EXCEPT !.cols = w.cols]),
                                      Ok("Affected", 1, <<>>))
                         : w \in Collection_insert(made.cols, stmt.into, doc) }
                : v \in checked }

\* Vec::retain with filter::evaluate
RECURSIVE retain(_, _)
retain(docs, where_clause) ==
    IF docs = <<>> THEN <<>>
    ELSE IF where_clause = None \/ evaluate(where_clause[1], Head(docs))
    THEN <<Head(docs)>> \o retain(Tail(docs), where_clause)
    ELSE retain(Tail(docs), where_clause)

\* executor.rs 382-391
evaluate_set_value(expr, doc) ==
    CASE expr.e = "Literal" -> literal_to_value(expr.lit)
      [] expr.e = "Column" /\ expr.col.c = "Field" ->
            IF expr.col.name \in DOMAIN doc.fields
            THEN doc.fields[expr.col.name]
            ELSE Null
      [] OTHER -> Null

\* the SET clauses, every value taken from the document as it was
apply_set_snapshot(doc, set) ==
    LET named == { set[i].column : i \in 1..Len(set) }
        last(k) == CHOOSE i \in 1..Len(set) :
                      /\ set[i].column = k
                      /\ \A j \in 1..Len(set) : set[j].column = k => j <= i
    IN [doc EXCEPT !.fields =
           [k \in DOMAIN doc.fields \cup named |->
               IF k \in named THEN evaluate_set_value(set[last(k)].value, doc)
               ELSE doc.fields[k]]]

\* the SET clauses, with a string written to the column id taken for the
\* document's id as well
RECURSIVE apply_set_moving(_, _)
apply_set_moving(doc, set) ==
    IF set = <<>> THEN doc
    ELSE LET val == evaluate_set_value(Head(set).value, doc)
             written == [doc EXCEPT !.fields = FieldsInsert(doc.fields, Head(set).column, val)]
         IN apply_set_moving(IF Head(set).column = "id" /\ val.t = "String"
                             THEN [written EXCEPT !.id = val.s]
                             ELSE written,
                             Tail(set))

\* executor.rs 146-149: the SET clauses, applied to the document in turn
RECURSIVE apply_set(_, _)
apply_set(doc, set) ==
    IF set = <<>> THEN doc
    ELSE apply_set([doc EXCEPT !.fields =
                       FieldsInsert(doc.fields, Head(set).column,
                                    evaluate_set_value(Head(set).value, doc))],
                   Tail(set))

\* What a loop over the matched documents leaves: the directories, and
\* whether a call of the store returned an error and ended the loop.  A call
\* that returns an error has changed nothing.
Looped(cols, failed) == [cols |-> cols, failed |-> failed]

\* the loop of UPDATE going on to the next document after an error
RECURSIVE update_each_continuing(_, _, _, _)
update_each_continuing(cols, name, docs, set) ==
    IF docs = <<>> THEN { Looped(cols, FALSE) }
    ELSE { Looped(l.cols, TRUE) : l \in update_each_continuing(cols, name, Tail(docs), set) }
         \cup UNION { update_each_continuing(c, name, Tail(docs), set) :
                         c \in Collection_upsert(cols, name, apply_set(Head(docs), set)) }

\* executor.rs 145-151: every matched document changed and upserted, in
\* scan order, up to the first upsert that returns an error
RECURSIVE update_each(_, _, _, _)
update_each(cols, name, docs, set) ==
    IF docs = <<>> THEN { Looped(cols, FALSE) }
    ELSE { Looped(cols, TRUE) }
         \cup UNION { update_each(c, name, Tail(docs), set) :
                         c \in Collection_upsert(cols, name, apply_set(Head(docs), set)) }

\* UPDATE reporting the documents scanned instead of the documents matched
execute_update_scanned(db, stmt) ==
    IF validate_collection_name(stmt.collection) # "Ok"
    THEN { Outcome(db, Err(validate_collection_name(stmt.collection), "")) }
    ELSE IF ~Collection_exists(db.cols, stmt.collection)
    THEN { Outcome(db, Err("CollectionNotFound", "")) }
    ELSE
    LET docs == retain(Collection_list(db.cols, stmt.collection), stmt.where_clause)
        count == Len(Collection_list(db.cols, stmt.collection))
    IN { IF l.failed
         THEN Outcome([db EXCEPT !.cols = l.cols], Err("Io", ""))
         ELSE Outcome(IF count > 0 THEN git_commit([db EXCEPT !.cols = l.cols])
                                   ELSE [db EXCEPT !.cols = l.cols],
                      Ok("Affected", count, <<>>))
         : l \in update_each(db.cols, stmt.collection, docs, stmt.set) }

execute_update(db, stmt) ==
    IF validate_collection_name(stmt.collection) # "Ok"
    THEN { Outcome(db, Err(validate_collection_name(stmt.collection), "")) }
    ELSE IF ~Collection_exists(db.cols, stmt.collection)
    THEN { Outcome(db, Err("CollectionNotFound", "")) }
    ELSE
    LET docs == retain(Collection_list(db.cols, stmt.collection), stmt.where_clause)
        count == Len(docs)
    IN { IF l.failed
         THEN Outcome([db EXCEPT !.cols = l.cols], Err("Io", ""))
         ELSE Outcome(IF count > 0 THEN git_commit([db EXCEPT !.cols = l.cols])
                                   ELSE [db EXCEPT !.cols = l.cols],
                      Ok("Affected", count, <<>>))
         : l \in update_each(db.cols, stmt.collection, docs, stmt.set) }

\* the loop of DELETE stopping after the first document
delete_each_first(cols, name, ids) ==
    IF ids = <<>> THEN { Looped(cols, FALSE) }
    ELSE { Looped(cols, TRUE), Looped(Collection_delete(cols, name, Head(ids)), FALSE) }

\* executor.rs 178-180: every matched document deleted, in scan order, up to
\* the first delete that returns an error
RECURSIVE delete_each(_, _, _)
delete_each(cols, name, ids) ==
    IF ids = <<>> THEN { Looped(cols, FALSE) }
    ELSE { Looped(cols, TRUE) }
         \cup delete_each(Collection_delete(cols, name, Head(ids)), name, Tail(ids))

\* DELETE that commits whether or not a document was deleted
execute_delete_committing(db, stmt) ==
    IF validate_collection_name(stmt.from) # "Ok"
    THEN { Outcome(db, Err(validate_collection_name(stmt.from), "")) }
    ELSE IF ~Collection_exists(db.cols, stmt.from)
    THEN { Outcome(db, Err("CollectionNotFound", "")) }
    ELSE
    LET docs == retain(Collection_list(db.cols, stmt.from), stmt.where_clause)
        count == Len(docs)
        ids == [i \in 1..count |-> docs[i].id]
    IN { IF l.failed
         THEN Outcome([db EXCEPT !.cols = l.cols], Err("Io", ""))
         ELSE Outcome(git_commit([db EXCEPT !.cols = l.cols]), Ok("Affected", count, <<>>))
         : l \in delete_each(db.cols, stmt.from, ids) }

\* executor.rs 160-187
execute_delete(db, stmt) ==
    IF validate_collection_name(stmt.from) # "Ok"
    THEN { Outcome(db, Err(validate_collection_name(stmt.from), "")) }
    ELSE IF ~Collection_exists(db.cols, stmt.from)
    THEN { Outcome(db, Err("CollectionNotFound", "")) }
    ELSE
    LET docs == retain(Collection_list(db.cols, stmt.from), stmt.where_clause)
        count == Len(docs)
        ids == [i \in 1..count |-> docs[i].id]
    IN { IF l.failed
         THEN Outcome([db EXCEPT !.cols = l.cols], Err("Io", ""))
         ELSE Outcome(IF count > 0 THEN git_commit([db EXCEPT !.cols = l.cols])
                                   ELSE [db EXCEPT !.cols = l.cols],
                      Ok("Affected", count, <<>>))
         : l \in delete_each(db.cols, stmt.from, ids) }

\* executor.rs 366-380
RECURSIVE datatype_to_fieldtype(_)
datatype_to_fieldtype(dt) ==
    CASE dt.dt = "String" -> TString
      [] dt.dt = "Int" -> TInt
      [] dt.dt = "Float" -> TFloat
      [] dt.dt = "Bool" -> TBool
      [] dt.dt = "Date" -> TDate
      [] dt.dt = "DateTime" -> TDateTime
      [] dt.dt = "Object" -> TObject
      [] dt.dt = "Array" -> TArray(datatype_to_fieldtype(dt.inner))
      [] dt.dt = "Ref" -> TRef(dt.name)

\* executor.rs 355-364
RECURSIVE literal_to_yaml(_)
literal_to_yaml(lit) ==
    CASE lit.l = "Null" -> [y |-> "Null"]
      [] lit.l = "Bool" -> [y |-> "Bool", b |-> lit.b]
      [] lit.l = "Int" -> [y |-> "Number", int |-> TRUE, n |-> lit.i]
      [] lit.l = "Float" -> [y |-> "Number", int |-> FALSE, n |-> lit.f]
      [] lit.l = "String" -> [y |-> "String", s |-> lit.s]
      [] lit.l = "Array" ->
            [y |-> "Sequence", a |-> [i \in 1..Len(lit.a) |-> literal_to_yaml(lit.a[i])]]

\* executor.rs 206-219: the FieldDef of a column definition
field_def(col) ==
    LET has(c) == \E i \in 1..Len(col.constraints) : col.constraints[i].c = c
        defaults == { i \in 1..Len(col.constraints) : col.constraints[i].c = "Default" }
    IN [field_type |-> datatype_to_fieldtype(col.data_type),
        required |-> has("Required"),
        unique |-> has("Unique"),
        indexed |-> has("Indexed"),
        default |-> IF defaults = {} THEN None
                    ELSE Some(literal_to_yaml(col.constraints[Min(defaults)].lit))]

\* executor.rs 204-221: the schema of the column definitions; a later
\* definition of the same name overwrites
create_schema(name, columns) ==
    LET last(k) == Max({ i \in 1..Len(columns) : columns[i].name = k })
    IN [name |-> name,
        fields |-> [k \in { columns[i].name : i \in 1..Len(columns) } |->
                       field_def(columns[last(k)])]]

\* SchemaRegistry::register
SchemaRegistry_register(schemas, schema) ==
    [n \in DOMAIN schemas \cup {schema.name} |->
        IF n = schema.name THEN schema ELSE schemas[n]]

\* CREATE COLLECTION with IF NOT EXISTS going on to register the columns
execute_create_collection_again(db, stmt) ==
    IF validate_collection_name(stmt.name) # "Ok"
    THEN { Outcome(db, Err(validate_collection_name(stmt.name), "")) }
    ELSE IF Collection_exists(db.cols, stmt.name) /\ ~stmt.if_not_exists
    THEN { Outcome(db, Err("CollectionExists", "")) }
    ELSE
    LET registered ==
            IF stmt.columns # <<>>
            THEN [db EXCEPT !.cols = Collection_ensure_exists(db.cols, stmt.name),
                            !.schemas = [n \in DOMAIN db.schemas \cup {stmt.name} |->
                                IF n = stmt.name
                                THEN [name |-> stmt.name,
                                      fields |-> [k \in { stmt.columns[i].name :
                                                            i \in 1..Len(stmt.columns) } |->
                                         [field_type |-> [ft |-> stmt.columns[
                                              CHOOSE i \in 1..Len(stmt.columns) :
                                                  stmt.columns[i].name = k].data_type.dt],
                                          required |-> FALSE, unique |-> FALSE,
                                          indexed |-> FALSE, default |-> None]]]
                                ELSE db.schemas[n]]]
            ELSE [db EXCEPT !.cols = Collection_ensure_exists(db.cols, stmt.name)]
    IN { Outcome(git_commit(registered), Ok("CollectionCreated", 0, <<>>)) }

execute_create_collection(db, stmt) ==
    IF validate_collection_name(stmt.name) # "Ok"
    THEN { Outcome(db, Err(validate_collection_name(stmt.name), "")) }
    ELSE IF Collection_exists(db.cols, stmt.name)
    THEN IF stmt.if_not_exists
         THEN { Outcome(db, Ok("CollectionCreated", 0, <<>>)) }
         ELSE { Outcome(db, Err("CollectionExists", "")) }
    ELSE
    LET made == [db EXCEPT !.cols = Collection_ensure_exists(db.cols, stmt.name)]
        registered ==
            IF stmt.columns # <<>>
            THEN [made EXCEPT !.schemas =
                     SchemaRegistry_register(db.schemas, create_schema(stmt.name, stmt.columns))]
            ELSE made
    IN { Outcome(git_commit(registered), Ok("CollectionCreated", 0, <<>>)) }

\* the view files of .mdby/views, by view name
NoViews == [n \in {} |-> [name |-> n, query |-> <<>>, template |-> <<>>]]

ViewDefinition(name, select, template) ==
    [name |-> name, query |-> select, template |-> template]

\* executor.rs 230-261: the view file is written, over an existing one under
\* IF NOT EXISTS, and committed
execute_create_view(db, stmt) ==
    IF validate_view_name(stmt.name) # "Ok"
    THEN { Outcome(db, Err(validate_view_name(stmt.name), "")) }
    ELSE IF validate_collection_name(stmt.query.from) # "Ok"
    THEN { Outcome(db, Err(validate_collection_name(stmt.query.from), "")) }
    ELSE IF stmt.template # None /\ validate_template_name(stmt.template[1]) # "Ok"
    THEN { Outcome(db, Err(validate_template_name(stmt.template[1]), "")) }
    ELSE IF stmt.name \in DOMAIN db.views /\ ~stmt.if_not_exists
    THEN { Outcome(db, Err("ViewExists", "")) }
    ELSE { Outcome(git_commit([db EXCEPT !.views =
                      [n \in DOMAIN db.views \cup {stmt.name} |->
                          IF n = stmt.name
                          THEN ViewDefinition(stmt.name, stmt.query, stmt.template)
                          ELSE db.views[n]]]),
                   Ok("ViewCreated", 0, <<>>)) }

\* executor.rs 278-299
execute_drop_view(db, name) ==
    IF validate_view_name(name) # "Ok"
    THEN { Outcome(db, Err(validate_view_name(name), "")) }
    ELSE IF name \notin DOMAIN db.views
    THEN { Outcome(db, Err("ViewNotFound", "")) }
    ELSE { Outcome(git_commit([db EXCEPT !.views =
                      [n \in DOMAIN db.views \ {name} |-> db.views[n]]]),
                   Ok("Affected", 1, <<>>)) }

\* DROP COLLECTION removing the documents and leaving the directory
execute_drop_collection_emptied(db, name) ==
    IF validate_collection_name(name) # "Ok"
    THEN { Outcome(db, Err(validate_collection_name(name), "")) }
    ELSE IF name \notin DOMAIN db.cols
    THEN { Outcome(db, Err("CollectionNotFound", "")) }
    ELSE { Outcome(git_commit([db EXCEPT !.cols[name] = <<>>]), Ok("Affected", 1, <<>>)) }

\* executor.rs 263-276: remove_dir_all of the collection directory
execute_drop_collection(db, name) ==
    IF validate_collection_name(name) # "Ok"
    THEN { Outcome(db, Err(validate_collection_name(name), "")) }
    ELSE IF name \notin DOMAIN db.cols
    THEN { Outcome(db, Err("CollectionNotFound", "")) }
    ELSE { Outcome(git_commit([db EXCEPT !.cols = [c \in DOMAIN db.cols \ {name} |-> db.cols[c]]]),
                   Ok("Affected", 1, <<>>)) }

\* executor.rs 329-342: compare_values of the executor, on options
compare_values(a, b) ==
    IF a = None /\ b = None THEN 0
    ELSE IF a = None THEN -1
    ELSE IF b = None THEN 1
    ELSE CASE a[1].t = "Int" /\ b[1].t = "Int" -> IntCmp(a[1].i, b[1].i)
           [] a[1].t = "Float" /\ b[1].t = "Float" -> IntCmp(a[1].f, b[1].f)
           [] a[1].t = "String" /\ b[1].t = "String" -> StrCmp(a[1].s, b[1].s)
           [] a[1].t = "Bool" /\ b[1].t = "Bool" -> BoolCmp(a[1].b, b[1].b)
           [] OTHER -> 0

\* HashMap::get
fields_get(doc, k) == IF k \in DOMAIN doc.fields THEN Some(doc.fields[k]) ELSE None

\* the comparator without the reversal for DESC
RECURSIVE compare_docs_asc(_, _, _)
compare_docs_asc(a, b, order_by) ==
    IF order_by = <<>> THEN 0
    ELSE LET cmp == compare_values(fields_get(a, Head(order_by).column),
                                   fields_get(b, Head(order_by).column))
         IN IF cmp # 0 THEN cmp ELSE compare_docs_asc(a, b, Tail(order_by))

\* executor.rs 45-59: the comparator handed to sort_by
RECURSIVE compare_docs(_, _, _)
compare_docs(a, b, order_by) ==
    IF order_by = <<>> THEN 0
    ELSE LET cmp == compare_values(fields_get(a, Head(order_by).column),
                                   fields_get(b, Head(order_by).column))
         IN IF cmp # 0
            THEN IF Head(order_by).direction = "Asc" THEN cmp ELSE 0 - cmp
            ELSE compare_docs(a, b, Tail(order_by))

\* insertion of x into a sorted run, behind everything not greater than it
insert_tail(sorted, x, order_by) ==
    LET n == Len(sorted)
        stop == { j \in 1..n : compare_docs(x, sorted[j], order_by) >= 0 }
        at == IF stop = {} THEN 1 ELSE Max(stop) + 1
    IN InsertAt(sorted, at, x)

RECURSIVE insertion_sort(_, _)
insertion_sort(docs, order_by) ==
    IF Len(docs) <= 1 THEN docs
    ELSE insert_tail(insertion_sort(SubSeq(docs, 1, Len(docs) - 1), order_by),
                     docs[Len(docs)], order_by)

SeqPermutations(seq) ==
    { [i \in 1..Len(seq) |-> seq[p[i]]] :
        p \in { q \in [1..Len(seq) -> 1..Len(seq)] :
                   \A i, j \in 1..Len(seq) : i # j => q[i] # q[j] } }

\* the comparator orders the documents consistently: being equal and being
\* less are transitive
total_order(docs, order_by) ==
    \A i, j, k \in 1..Len(docs) :
        LET ij == compare_docs(docs[i], docs[j], order_by)
            jk == compare_docs(docs[j], docs[k], order_by)
            ik == compare_docs(docs[i], docs[k], order_by)
        IN /\ (ij = 0 /\ jk = 0) => ik = 0
           /\ (ij < 0 /\ jk < 0) => ik < 0
           /\ (ij < 0 /\ jk = 0) => ik < 0
           /\ (ij = 0 /\ jk < 0) => ik < 0

\* slice::sort_by: a stable sort; when the comparator is not a total order
\* the order of the elements is unspecified
sort_by(docs, order_by) ==
    IF total_order(docs, order_by)
    THEN { insertion_sort(docs, order_by) }
    ELSE SeqPermutations(docs)

\* executor.rs 301-327
RECURSIVE project_fields(_, _, _)
project_fields(fields, doc, columns) ==
    IF columns = <<>> THEN fields
    ELSE LET col == Head(columns)
             next == CASE col.c = "Star" -> doc.fields
                       [] col.c = "Field" /\ col.name \in DOMAIN doc.fields ->
                             FieldsInsert(fields, col.name, doc.fields[col.name])
                       [] OTHER -> fields
         IN project_fields(next, doc, Tail(columns))

\* every field of the document, whatever the column list
project_columns_all(doc, columns) ==
    [id |-> doc.id, fields |-> doc.fields, body |-> doc.body]

\* executor.rs 301-327
project_columns(doc, columns) ==
    [id |-> doc.id, fields |-> project_fields(EmptyFields, doc, columns), body |-> doc.body]

\* LIMIT, then OFFSET
paginate_limit_first(docs, offset, limit) ==
    LET taken == IF limit = None THEN docs
                 ELSE SubSeq(docs, 1, IF limit[1] < Len(docs) THEN limit[1] ELSE Len(docs))
    IN IF offset = None THEN taken
       ELSE IF offset[1] < Len(taken) THEN SubSeq(taken, offset[1] + 1, Len(taken))
       ELSE <<>>

\* executor.rs 62-74: OFFSET, then LIMIT
paginate(docs, offset, limit) ==
    LET skipped == IF offset = None THEN docs
                   ELSE IF offset[1] < Len(docs)
                   THEN SubSeq(docs, offset[1] + 1, Len(docs))
                   ELSE <<>>
    IN IF limit = None THEN skipped
       ELSE SubSeq(skipped, 1, IF limit[1] < Len(skipped) THEN limit[1] ELSE Len(skipped))

execute_select(db, stmt) ==
    IF validate_collection_name(stmt.from) # "Ok"
    THEN { Outcome(db, Err(validate_collection_name(stmt.from), "")) }
    ELSE IF ~Collection_exists(db.cols, stmt.from)
    THEN { Outcome(db, Err("CollectionNotFound", "")) }
    ELSE
    LET docs == retain(Collection_list(db.cols, stmt.from), stmt.where_clause)
        sorted == IF stmt.order_by # <<>> THEN sort_by(docs, stmt.order_by) ELSE { docs }
        star == \E i \in 1..Len(stmt.columns) : stmt.columns[i].c = "Star"
    IN { LET page == paginate(s, stmt.offset, stmt.limit)
         IN Outcome(db, Ok("Documents", 0,
                IF star THEN page
                ELSE [i \in 1..Len(page) |-> project_columns(page[i], stmt.columns)]))
         : s \in sorted }

(***************************************************************************)
(* The state machine.  cols, schemas and commits are the database;  stmt   *)
(* and result are the statement executed last and what it returned; prev   *)
(* is the database as that statement found it.                             *)
(***************************************************************************)
VARIABLES cols, schemas, views, commits, faults, query, stmt, result, prev

vars == <<cols, schemas, views, commits, faults, query, stmt, result, prev>>

Db == [cols |-> cols, schemas |-> schemas, views |-> views, commits |-> commits]

NoSchemas == [n \in {} |-> Schema_new(<<>>)]

\* Bounds of the model
MaxCommits == 4
MaxDocs == 3
MaxFaults == 1

\* Database::execute of one statement: one of its outcomes becomes the state
Step(s, outcomes) ==
    /\ commits + faults < MaxCommits
    /\ \E o \in outcomes :
          /\ \A c \in DOMAIN o.db.cols : Len(o.db.cols[c]) <= MaxDocs
          /\ cols' = o.db.cols
          /\ schemas' = o.db.schemas
          /\ views' = o.db.views
          /\ commits' = o.db.commits
          /\ result' = o.result
          /\ faults' = faults + (IF o.result.kind = "Io" THEN 1 ELSE 0)
          /\ faults' <= MaxFaults
    /\ stmt' = s
    /\ UNCHANGED query
    /\ prev' = Db

(***************************************************************************)
(* The MDQL parser (mdql/src/parser.rs), on the CREATE COLLECTION and DROP  *)
(* statements                                                              *)
(***************************************************************************)
LowerSeq == <<"a","b","c","d","e","f","g","h","i","j","k","l","m",
              "n","o","p","q","r","s","t","u","v","w","x","y","z">>
UpperSeq == <<"A","B","C","D","E","F","G","H","I","J","K","L","M",
              "N","O","P","Q","R","S","T","U","V","W","X","Y","Z">>

\* comparison of two characters without regard to case
eq_no_case(c, d) ==
    \/ c = d
    \/ \E i \in 1..26 : {c, d} = {LowerSeq[i], UpperSeq[i]}

\* char::is_whitespace, on the characters of the model
is_whitespace(c) == c \in {" ", "\n", "\t", "\r"}

RECURSIVE trim_start(_)
trim_start(s) == IF s # <<>> /\ is_whitespace(Head(s)) THEN trim_start(Tail(s)) ELSE s

RECURSIVE trim_end(_)
trim_end(s) ==
    IF s # <<>> /\ is_whitespace(s[Len(s)]) THEN trim_end(SubSeq(s, 1, Len(s) - 1)) ELSE s

\* str::trim
trim(s) == trim_end(trim_start(s))

RECURSIVE trim_end_matches(_, _)
trim_end_matches(s, c) ==
    IF s # <<>> /\ s[Len(s)] = c THEN trim_end_matches(SubSeq(s, 1, Len(s) - 1), c) ELSE s

\* The parsers give no result (<<>>) or one: what is left of the input, and
\* the value parsed.
Parsed(rest, val) == <<[rest |-> rest, val |-> val]>>

tag_no_case(t, input) ==
    IF /\ Len(input) >= Len(t)
       /\ \A i \in 1..Len(t) : eq_no_case(input[i], t[i])
    THEN Parsed(SubSeq(input, Len(t) + 1, Len(input)), SubSeq(input, 1, Len(t)))
    ELSE <<>>

\* the length of the longest prefix of characters of the set
take_while(input, chars) ==
    CHOOSE n \in 0..Len(input) :
        /\ \A i \in 1..n : input[i] \in chars
        /\ n = Len(input) \/ input[n + 1] \notin chars

take_while1(input, chars) ==
    LET n == take_while(input, chars)
    IN  IF n = 0 THEN <<>>
        ELSE Parsed(SubSeq(input, n + 1, Len(input)), SubSeq(input, 1, n))

multispace1(input) == take_while1(input, {" ", "\n", "\t", "\r"})

\* the characters c with c.is_alphanumeric() || c == '_' || c == '-'
identifier_chars == Lower \cup Upper \cup Digit \cup {"_", "-"}

\* parser.rs 599-601
identifier(input) == take_while1(input, identifier_chars)

\* the keywords of the statements of the model, as tag_no_case is given them
Keyword ==
    [drop |-> <<"D","R","O","P">>,
     collection |-> <<"C","O","L","L","E","C","T","I","O","N">>,
     view |-> <<"V","I","E","W">>,
     create |-> <<"C","R","E","A","T","E">>,
     if |-> <<"I","F">>,
     not |-> <<"N","O","T">>,
     exists |-> <<"E","X","I","S","T","S">>,
     array |-> <<"A","R","R","A","Y">>,
     ref |-> <<"R","E","F">>,
     required |-> <<"R","E","Q","U","I","R","E","D">>,
     unique |-> <<"U","N","I","Q","U","E">>,
     indexed |-> <<"I","N","D","E","X","E","D">>,
     default |-> <<"D","E","F","A","U","L","T">>,
     null |-> <<"N","U","L","L">>,
     true |-> <<"t","r","u","e">>,
     false |-> <<"f","a","l","s","e">>]

\* DROP <keyword> <identifier>
drop_stmt(input, keyword, op) ==
    LET r1 == tag_no_case(Keyword.drop, input)
        r2 == IF r1 = <<>> THEN <<>> ELSE multispace1(r1[1].rest)
        r3 == IF r2 = <<>> THEN <<>> ELSE tag_no_case(keyword, r2[1].rest)
        r4 == IF r3 = <<>> THEN <<>> ELSE multispace1(r3[1].rest)
        r5 == IF r4 = <<>> THEN <<>> ELSE identifier(r4[1].rest)
    IN  IF r5 = <<>> THEN <<>>
        ELSE Parsed(r5[1].rest, [op |-> op, name |-> r5[1].val])

\* parser.rs 380-387
drop_collection_stmt(input) == drop_stmt(input, Keyword.collection, "DropCollection")

\* parser.rs 389-396
drop_view_stmt(input) == drop_stmt(input, Keyword.view, "DropView")

multispace0(input) ==
    LET n == take_while(input, {" ", "\n", "\t", "\r"})
    IN  Parsed(SubSeq(input, n + 1, Len(input)), SubSeq(input, 1, n))

char(c, input) ==
    IF input # <<>> /\ Head(input) = c THEN Parsed(Tail(input), c) ELSE <<>>

\* the results of a parser as a set, and a set of at most one result as the
\* result of a parser
Results(parsed) == { parsed[i] : i \in 1..Len(parsed) }

to_parsed(results) ==
    CHOOSE q \in { IF rs = {} THEN <<>> ELSE <<CHOOSE x \in rs : TRUE>> : rs \in {results} } : TRUE

\* parser.rs 307-313: the keyword alternatives of data_type, in their order
SimpleTypes ==
    << [kw |-> <<"S","T","R","I","N","G">>, dt |-> "String"],
       [kw |-> <<"I","N","T">>, dt |-> "Int"],
       [kw |-> <<"F","L","O","A","T">>, dt |-> "Float"],
       [kw |-> <<"B","O","O","L">>, dt |-> "Bool"],
       [kw |-> <<"D","A","T","E">>, dt |-> "Date"],
       [kw |-> <<"D","A","T","E","T","I","M","E">>, dt |-> "DateTime"],
       [kw |-> <<"O","B","J","E","C","T">>, dt |-> "Object"] >>

\* parser.rs 305-327: the first alternative that parses: a keyword, then
\* ARRAY<data_type>, then REF<identifier>
RECURSIVE data_type(_)
data_type(input) ==
    CHOOSE q \in
        { IF hits # {}
          THEN Parsed(SubSeq(input, Len(SimpleTypes[Min(hits)].kw) + 1, Len(input)),
                      [dt |-> SimpleTypes[Min(hits)].dt])
          ELSE IF array # <<>> THEN array
          ELSE ref :
          hits \in { { i \in 1..Len(SimpleTypes) : tag_no_case(SimpleTypes[i].kw, input) # <<>> } },
          array \in { to_parsed(UNION { UNION { UNION { UNION { UNION {
                        { [rest |-> a5.rest, val |-> [dt |-> "Array", inner |-> a4.val]] }
                        : a5 \in Results(char(">", a4.rest)) }
                        : a4 \in Results(data_type(a3.rest)) }
                        : a3 \in Results(char("<", a2.rest)) }
                        : a2 \in Results(multispace0(a1.rest)) }
                        : a1 \in Results(tag_no_case(Keyword.array, input)) }) },
          ref \in { to_parsed(UNION { UNION { UNION { UNION { UNION {
                        { [rest |-> r5.rest, val |-> [dt |-> "Ref", name |-> r4.val]] }
                        : r5 \in Results(char(">", r4.rest)) }
                        : r4 \in Results(identifier(r3.rest)) }
                        : r3 \in Results(char("<", r2.rest)) }
                        : r2 \in Results(multispace0(r1.rest)) }
                        : r1 \in Results(tag_no_case(Keyword.ref, input)) }) } } : TRUE

\* parser.rs 615-620
integer_literal(input) ==
    to_parsed(UNION { { [rest |-> digits.rest,
                         val |-> IF neg = <<>> THEN DigitsValue(digits.val)
                                 ELSE 0 - DigitsValue(digits.val)]
                        : digits \in Results(take_while1(IF neg = <<>> THEN input
                                                         ELSE neg[1].rest, Digit)) }
                      : neg \in { char("-", input) } })

\* parser.rs 603-613, on NULL, the booleans and the integers.  The float
\* alternative before the integers gives no result on digits that no '.'
\* follows; the string and array alternatives come after.
literal(input) ==
    CHOOSE q \in
        { IF null # <<>> THEN Parsed(null[1].rest, LNull)
          ELSE IF true # <<>> THEN Parsed(true[1].rest, LBool(TRUE))
          ELSE IF false # <<>> THEN Parsed(false[1].rest, LBool(FALSE))
          ELSE IF int # <<>> THEN Parsed(int[1].rest, LInt(int[1].val))
          ELSE <<>> :
          null \in { tag_no_case(Keyword.null, input) },
          true \in { tag_no_case(Keyword.true, input) },
          false \in { tag_no_case(Keyword.false, input) },
          int \in { integer_literal(input) } } : TRUE

\* parser.rs 329-339
constraint(input) ==
    CHOOSE q \in
        { IF required # <<>> THEN Parsed(required[1].rest, [c |-> "Required"])
          ELSE IF unique # <<>> THEN Parsed(unique[1].rest, [c |-> "Unique"])
          ELSE IF indexed # <<>> THEN Parsed(indexed[1].rest, [c |-> "Indexed"])
          ELSE IF default # <<>>
          THEN Parsed(default[1].rest, [c |-> "Default", lit |-> default[1].val])
          ELSE <<>> :
          required \in { tag_no_case(Keyword.required, input) },
          unique \in { tag_no_case(Keyword.unique, input) },
          indexed \in { tag_no_case(Keyword.indexed, input) },
          default \in { to_parsed(UNION { UNION { Results(literal(d2.rest))
                            : d2 \in Results(multispace1(d1.rest)) }
                            : d1 \in Results(tag_no_case(Keyword.default, input)) }) } } : TRUE

\* parser.rs 296: many0(preceded(multispace1, constraint))
RECURSIVE constraints_many0(_)
constraints_many0(input) ==
    CHOOSE q \in
        UNION { IF found = <<>>
                THEN { Parsed(input, <<>>) }
                ELSE { Parsed(more.rest, <<found[1].val>> \o more.val)
                         : more \in Results(constraints_many0(found[1].rest)) } :
                found \in { to_parsed(UNION { Results(constraint(s.rest))
                                : s \in Results(multispace1(input)) }) } } : TRUE

\* parser.rs 292-303
column_def(input) ==
    to_parsed(UNION { UNION { UNION { UNION {
        { [rest |-> c4.rest,
           val |-> [name |-> c1.val, data_type |-> c3.val, constraints |-> c4.val]] }
        : c4 \in Results(constraints_many0(c3.rest)) }
        : c3 \in Results(data_type(c2.rest)) }
        : c2 \in Results(multispace1(c1.rest)) }
        : c1 \in Results(identifier(input)) })

\* parser.rs 281: separated_list0(tuple((multispace0, char(','), multispace0)),
\* column_def); acc holds the column definitions parsed so far, none at the
\* start, and a separator is taken only with the column definition after it
RECURSIVE column_defs(_, _)
column_defs(input, acc) ==
    CHOOSE q \in
        { IF el = <<>> THEN Parsed(input, acc)
          ELSE column_defs(el[1].rest, Append(acc, el[1].val)) :
          el \in { IF acc = <<>>
                   THEN column_def(input)
                   ELSE to_parsed(UNION { UNION { UNION { Results(column_def(s3.rest))
                            : s3 \in Results(multispace0(s2.rest)) }
                            : s2 \in Results(char(",", s1.rest)) }
                            : s1 \in Results(multispace0(input)) }) } } : TRUE

\* parser.rs 264-290
create_collection_stmt(input) ==
    to_parsed(UNION { UNION { UNION { UNION { UNION { UNION { UNION { UNION {
        { [rest |-> IF columns = <<>> THEN k6.rest ELSE columns[1].rest,
           val |-> [op |-> "CreateCollection", name |-> k5.val,
                    columns |-> IF columns = <<>> THEN <<>> ELSE columns[1].val,
                    if_not_exists |-> if_not_exists # <<>>]] }
        : columns \in { to_parsed(UNION { UNION { UNION {
                            { [rest |-> p3.rest, val |-> p2.val] }
                            : p3 \in Results(char(")", p2.rest)) }
                            : p2 \in Results(column_defs(p1.rest, <<>>)) }
                            : p1 \in Results(char("(", k6.rest)) }) } }
        : k6 \in Results(multispace0(k5.rest)) }
        : k5 \in Results(identifier(k4.rest)) }
        : k4 \in Results(multispace1(k3.rest)) }
        : k3 \in Results(tag_no_case(Keyword.collection,
                                    IF if_not_exists = <<>> THEN k2.rest
                                    ELSE if_not_exists[1].rest)) }
        : if_not_exists \in { to_parsed(UNION { UNION { UNION { UNION { UNION {
                                  Results(multispace1(i5.rest))
                                  : i5 \in Results(tag_no_case(Keyword.exists, i4.rest)) }
                                  : i4 \in Results(multispace1(i3.rest)) }
                                  : i3 \in Results(tag_no_case(Keyword.not, i2.rest)) }
                                  : i2 \in Results(multispace1(i1.rest)) }
                                  : i1 \in Results(tag_no_case(Keyword.if, k2.rest)) }) } }
        : k2 \in Results(multispace1(k1.rest)) }
        : k1 \in Results(tag_no_case(Keyword.create, input)) })

\* parser.rs 56-67: the first alternative that parses.  The alternatives
\* that are not modelled start with the keywords SELECT, INSERT, UPDATE and
\* DELETE, or need VIEW after CREATE, and give no result on a text that
\* starts with CREATE COLLECTION or with DROP.
statement(input) ==
    CHOOSE q \in
        { IF created # <<>> THEN created
          ELSE IF dropped # <<>> THEN dropped
          ELSE view :
          created \in { create_collection_stmt(input) },
          dropped \in { drop_collection_stmt(input) },
          view \in { drop_view_stmt(input) } } : TRUE

\* a parse that takes the statement and ignores what follows it
parse_statement_prefix(input) ==
    LET r == statement(trim(input))
    IN  IF r = <<>> THEN [ok |-> FALSE, stmt |-> [op |-> "None"]]
        ELSE [ok |-> TRUE, stmt |-> r[1].val]

\* parser.rs 19-30
parse_statement(input) ==
    LET r == statement(trim(input))
    IN  IF r = <<>> THEN [ok |-> FALSE, stmt |-> [op |-> "None"]]
        ELSE IF trim(trim_end_matches(trim(r[1].rest), ";")) # <<>>
        THEN [ok |-> FALSE, stmt |-> [op |-> "None"]]
        ELSE [ok |-> TRUE, stmt |-> r[1].val]

(***************************************************************************)
(* Statements of the model                                                 *)
(***************************************************************************)
T == <<"t">>
CON == <<"C", "O", "N">>
CollNames == {T, CON}

A == <<"a">>
B == <<"b">>
C == <<"c">>
BadId == <<"-", "a">>
Evil == <<".", ".", "/", "e">>
V == <<"v">>
Tpl == <<"a", ".", "m", "d">>

StrNo == <<"n", "o">>
StrDate == <<"2", "0", "2", "4", "-", "0", "1", "-", "1", "5">>
BodyText == <<"\n", "x">>

InsertStmt(into, columns, values, body) ==
    [op |-> "Insert", into |-> into, columns |-> columns, values |-> values, body |-> body]

InsertRows ==
    { <<<<"id">>, <<LString(A)>>>>,
      <<<<"id", "count">>, <<LString(A), LInt(42)>>>>,
      <<<<"id", "count">>, <<LString(B), LInt(42)>>>>,
      <<<<"id", "count">>, <<LString(A), LFloat(420)>>>>,
      <<<<"id", "count">>, <<LString(A), LFloat(15)>>>>,
      <<<<"id", "count">>, <<LString(A), LString(StrNo)>>>>,
      <<<<"id", "count">>, <<LString(B), LNull>>>>,
      <<<<"count">>, <<LInt(42)>>>>,
      <<<<"id", "count">>, <<LInt(7), LInt(42)>>>>,
      <<<<"count", "id">>, <<LInt(42)>>>>,
      <<<<"id", "count">>, <<LString(BadId), LInt(42)>>>>,
      <<<<"id", "flag">>, <<LString(A), LBool(TRUE)>>>>,
      <<<<"id", "flag">>, <<LString(A), LString(StrNo)>>>>,
      <<<<"id", "flag">>, <<LString(B), LString(StrDate)>>>> }

InsertStmts ==
    { InsertStmt(T, row[1], row[2], None) : row \in InsertRows }
    \cup { InsertStmt(T, <<"id", "count">>, <<LString(A), LInt(42)>>, Some(BodyText)),
           InsertStmt(CON, <<"id", "count">>, <<LString(A), LInt(42)>>, None),
           InsertStmt(CON, <<"count">>, <<LInt(42)>>, None) }

ColumnDef(name, dt, cs) ==
    [name |-> name, data_type |-> dt, constraints |-> cs]

ColumnLists ==
    { <<>>,
      <<ColumnDef("count", [dt |-> "Int"], <<>>)>>,
      <<ColumnDef("count", [dt |-> "Int"], <<[c |-> "Required"]>>)>>,
      <<ColumnDef("flag", [dt |-> "Bool"], <<>>)>>,
      <<ColumnDef("flag", [dt |-> "Date"], <<>>)>> }

CreateCollectionStmt(name, columns, if_not_exists) ==
    [op |-> "CreateCollection", name |-> name, columns |-> columns,
     if_not_exists |-> if_not_exists]

CreateCollectionStmts ==
    { CreateCollectionStmt(T, cl, ine) : cl \in ColumnLists, ine \in BOOLEAN }
    \cup { CreateCollectionStmt(CON, <<>>, ine) : ine \in BOOLEAN }

DropCollectionStmts == { [op |-> "DropCollection", name |-> n] : n \in CollNames }

CountEq(i) == EBinaryOp(EField("count"), "Eq", ELiteral(LInt(i)))
IdEq(id) == EBinaryOp(EField("id"), "Eq", ELiteral(LString(id)))

UpdateStmt(collection, set, where_clause) ==
    [op |-> "Update", collection |-> collection, set |-> set, where_clause |-> where_clause]

SetClause(column, value) == [column |-> column, value |-> value]

UpdateStmts ==
    { UpdateStmt(T, <<SetClause("count", ELiteral(LInt(1)))>>, w) :
        w \in {None, Some(CountEq(42)), Some(IdEq(A))} }
    \cup { UpdateStmt(CON, <<SetClause("count", ELiteral(LInt(1)))>>, None) }

DeleteStmt(from, where_clause) ==
    [op |-> "Delete", from |-> from, where_clause |-> where_clause]

DeleteStmts ==
    { DeleteStmt(T, w) : w \in {None, Some(CountEq(42)), Some(IdEq(A))} }
    \cup { DeleteStmt(CON, None) }

Star == [c |-> "Star"]
Field(name) == [c |-> "Field", name |-> name]
OrderBy(column, direction) == [column |-> column, direction |-> direction]

SelectStmt(columns, from, where_clause, order_by, limit, offset) ==
    [op |-> "Select", columns |-> columns, from |-> from, where_clause |-> where_clause,
     order_by |-> order_by, limit |-> limit, offset |-> offset]

SelectStmts ==
    { SelectStmt(<<Star>>, T, w, <<>>, None, None) :
        w \in {None, Some(CountEq(42)), Some(IdEq(A))} }
    \cup { SelectStmt(<<Star>>, CON, None, <<>>, None, None) }

CreateViewStmt(name, select, template, if_not_exists) ==
    [op |-> "CreateView", name |-> name, query |-> select, template |-> template,
     if_not_exists |-> if_not_exists]

CreateViewStmts ==
    { CreateViewStmt(V, SelectStmt(<<Star>>, T, None, <<>>, None, None), None, ine) :
        ine \in BOOLEAN }
    \cup { CreateViewStmt(V, SelectStmt(<<Star>>, T, None, <<>>, None, None),
                          Some(tpl), FALSE) : tpl \in {Tpl, Evil} }
    \cup { CreateViewStmt(V, SelectStmt(<<Star>>, CON, None, <<>>, None, None),
                          None, FALSE),
           CreateViewStmt(Evil, SelectStmt(<<Star>>, T, None, <<>>, None, None),
                          None, FALSE) }

DropViewStmts == { [op |-> "DropView", name |-> n] : n \in {V, Evil} }

(***************************************************************************)
(* Actions: one per statement kind, over a set of statements               *)
(***************************************************************************)
Insert(stmts) == \E s \in stmts : Step(s, execute_insert(Db, s))

Update(stmts) == \E s \in stmts : Step(s, execute_update(Db, s))

Delete(stmts) == \E s \in stmts : Step(s, execute_delete(Db, s))

CreateCollection(stmts) == \E s \in stmts : Step(s, execute_create_collection(Db, s))

DropCollection(stmts) == \E s \in stmts : Step(s, execute_drop_collection(Db, s.name))

Select(stmts) == \E s \in stmts : Step(s, execute_select(Db, s))

CreateView(stmts) == \E s \in stmts : Step(s, execute_create_view(Db, s))

DropView(stmts) == \E s \in stmts : Step(s, execute_drop_view(Db, s.name))

\* Database::open on a fresh directory
Init ==
    /\ cols = NoCollections
    /\ schemas = NoSchemas
    /\ views = NoViews
    /\ query = <<>>
    /\ commits = 0
    /\ faults = 0
    /\ stmt = [op |-> "None"]
    /\ result = Ok("None", 0, <<>>)
    /\ prev = [cols |-> NoCollections, schemas |-> NoSchemas, views |-> NoViews,
               commits |-> 0]

Next ==
    \/ Insert(InsertStmts)
    \/ Update(UpdateStmts)
    \/ Delete(DeleteStmts)
    \/ CreateCollection(CreateCollectionStmts)
    \/ DropCollection(DropCollectionStmts)
    \/ Select(SelectStmts)

Spec == Init /\ [][Next]_vars

(***************************************************************************)
(* The fresh database under all eight kinds of statement                   *)
(***************************************************************************)
ViewsInsertStmts ==
    { InsertStmt(T, <<"id">>, <<LString(A)>>, None),
      InsertStmt(T, <<"id">>, <<LString(B)>>, None),
      InsertStmt(T, <<"count">>, <<LInt(42)>>, None),
      InsertStmt(T, <<"id">>, <<LString(Evil)>>, None),
      InsertStmt(Evil, <<"id">>, <<LString(A)>>, None) }

ViewsUpdateStmts ==
    { UpdateStmt(n, <<SetClause("count", ELiteral(LInt(1)))>>, w) :
        n \in {T, Evil}, w \in {None, Some(IdEq(A))} }

ViewsDeleteStmts == { DeleteStmt(n, w) : n \in {T, Evil}, w \in {None, Some(IdEq(A))} }

ViewsCreateCollectionStmts ==
    { CreateCollectionStmt(n, <<>>, ine) : n \in {T, Evil}, ine \in BOOLEAN }

ViewsDropCollectionStmts == { [op |-> "DropCollection", name |-> n] : n \in {T, Evil} }

ViewsSelectStmts == { SelectStmt(<<Star>>, n, None, <<>>, None, None) : n \in {T, Evil} }

NextViews ==
    \/ Insert(ViewsInsertStmts)
    \/ Update(ViewsUpdateStmts)
    \/ Delete(ViewsDeleteStmts)
    \/ CreateCollection(ViewsCreateCollectionStmts)
    \/ DropCollection(ViewsDropCollectionStmts)
    \/ Select(ViewsSelectStmts)
    \/ CreateView(CreateViewStmts)
    \/ DropView(DropViewStmts)

SpecViews == Init /\ [][NextViews]_vars

(***************************************************************************)
(* Databases opened on a directory that holds documents already            *)
(***************************************************************************)
D == <<"d">>
IdSeq == <<A, B, C, D>>

\* the file of a document
File(doc) == [name |-> doc.id, content |-> Document_render(doc)]

\* the directories of at most MaxDocs documents with fields and body from rows
Populated(rows) ==
    UNION { { [i \in 1..n |-> File([id |-> IdSeq[i], fields |-> f[i][1], body |-> f[i][2]])] :
                f \in [1..n -> rows] } :
            n \in 0..(IF MaxDocs < Len(IdSeq) THEN MaxDocs ELSE Len(IdSeq)) }

\* Database::open on a directory whose collection t holds some of the rows,
\* each committed by the INSERT that wrote it
InitPopulated(rows) ==
    /\ cols \in { [c \in {T} |-> files] : files \in Populated(rows) }
    /\ schemas = NoSchemas
    /\ views = NoViews
    /\ query = <<>>
    /\ commits = Len(cols[T])
    /\ faults = 0
    /\ stmt = [op |-> "None"]
    /\ result = Ok("None", 0, <<>>)
    /\ prev = [cols |-> cols, schemas |-> NoSchemas, views |-> NoViews,
               commits |-> commits]

OneField(k, val) == [f \in {k} |-> val]

MutateRows ==
    { <<EmptyFields, <<"x">>>>,
      <<OneField("count", VInt(1)), <<>>>>,
      <<OneField("count", VInt(42)), <<>>>>,
      <<OneField("count", VInt(42)), <<"x">>>> }

MutateWheres == {None, Some(CountEq(42)), Some(CountEq(7))}

MutateUpdateStmts ==
    { UpdateStmt(T, set, w) :
        set \in { <<SetClause("count", ELiteral(LInt(1)))>>,
                  <<SetClause("flag", ELiteral(LBool(TRUE))),
                    SetClause("count", ELiteral(LInt(42)))>> },
        w \in MutateWheres }

MutateDeleteStmts == { DeleteStmt(T, w) : w \in MutateWheres }

InitMutate == InitPopulated(MutateRows)

NextMutate ==
    \/ Update(MutateUpdateStmts)
    \/ Delete(MutateDeleteStmts)

SpecMutate == InitMutate /\ [][NextMutate]_vars

\* Documents with fields a and b, and UPDATEs whose SET values are expressions
SetRows ==
    { <<[k \in {"a", "b"} |-> IF k = "a" THEN VInt(1) ELSE VInt(2)], <<>>>>,
      <<OneField("a", VInt(1)), <<>>>>,
      <<OneField("b", VInt(2)), <<"x">>>>,
      <<EmptyFields, <<>>>> }

SetLists ==
    { <<SetClause("a", EField("b")), SetClause("b", EField("a"))>>,
      <<SetClause("a", EField("b"))>>,
      <<SetClause("a", ELiteral(LInt(5))), SetClause("b", EField("a"))>>,
      <<SetClause("b", EField("a")), SetClause("b", ELiteral(LInt(5)))>>,
      <<SetClause("a", ESpecial("Id"))>>,
      <<SetClause("a", EBinaryOp(EField("b"), "Eq", ELiteral(LInt(2))))>>,
      <<SetClause("id", ELiteral(LString(B)))>> }

SetUpdateStmts ==
    { UpdateStmt(T, set, w) :
        set \in SetLists,
        w \in { None, Some(EBinaryOp(EField("a"), "Eq", ELiteral(LInt(1)))) } }

InitSet == InitPopulated(SetRows)

NextSet ==
    \/ Update(SetUpdateStmts)

SpecSet == InitSet /\ [][NextSet]_vars

StrA == <<"a">>
StrB == <<"b">>

\* a row with these values, one at most for each, under j and under k
SelectRow(jvs, kvs) ==
    <<[f \in { "j" : x \in jvs } \cup { "k" : x \in kvs } |->
          IF f = "j" THEN CHOOSE x \in jvs : TRUE ELSE CHOOSE x \in kvs : TRUE], <<>>>>

\* integers and a string under k; strings or nothing under j
SelectRows ==
    { SelectRow({VString(StrA)}, {VInt(1)}),
      SelectRow({VString(StrA)}, {VInt(5)}),
      SelectRow({}, {VInt(10)}),
      <<SelectRow({VString(StrB)}, {VString(StrA)})[1], <<"x">>>> }

JEq(sv) == EBinaryOp(EField("j"), "Eq", ELiteral(LString(sv)))

SelectOrderStmts ==
    { SelectStmt(<<Star>>, T, None, ob, None, None) :
        ob \in { <<OrderBy("k", "Asc")>>,
                 <<OrderBy("k", "Desc")>>,
                 <<OrderBy("j", "Desc")>>,
                 <<OrderBy("j", "Asc"), OrderBy("k", "Desc")>> } }
    \cup { SelectStmt(<<Star>>, T, Some(JEq(StrA)), <<OrderBy("k", "Desc")>>, None, None) }

SelectPageStmts ==
    { SelectStmt(<<Star>>, T, None, <<>>, limit, offset) :
        limit \in {None, Some(1), Some(2)},
        offset \in {None, Some(1), Some(3)} }
    \cup { SelectStmt(<<Star>>, T, Some(JEq(StrA)), <<OrderBy("j", "Desc"), OrderBy("k", "Asc")>>,
                      Some(1), Some(1)) }

SpecialColumn(sf) == [c |-> "Special", sf |-> sf]

SelectProjectStmts ==
    { SelectStmt(columns, T, None, <<>>, None, None) :
        columns \in { <<Field("j")>>,
                      <<Field("k"), Field("j")>>,
                      <<Field("z")>>,
                      <<SpecialColumn("Id")>>,
                      <<Field("j"), Star>> } }
    \cup { SelectStmt(<<Field("k")>>, T, Some(JEq(StrA)), <<OrderBy("k", "Desc")>>,
                      Some(1), None) }

InitSelect == InitPopulated(SelectRows)

NextSelect ==
    \/ Select(SelectOrderStmts)
    \/ Select(SelectPageStmts)
    \/ Select(SelectProjectStmts)

SpecSelect == InitSelect /\ [][NextSelect]_vars

(***************************************************************************)
(* Filters, on collections of a few documents with one field x             *)
(***************************************************************************)
MaxFilterDocs == 2

Str5 == <<"5">>

\* nothing, null, an integer, a float, a string and the booleans under x
FilterRows ==
    { <<EmptyFields, <<>>>>,
      <<OneField("x", Null), <<>>>>,
      <<OneField("x", VInt(5)), <<>>>>,
      <<OneField("x", VFloat(50)), <<>>>>,
      <<OneField("x", VString(Str5)), <<>>>>,
      <<OneField("x", VBool(TRUE)), <<>>>>,
      <<OneField("x", VBool(FALSE)), <<>>>> }

FilterLiterals == {LNull, LInt(5), LFloat(50), LString(Str5), LBool(TRUE), LBool(FALSE)}

FieldEq(f, lit) == EBinaryOp(EField(f), "Eq", ELiteral(lit))

Where(w) == SelectStmt(<<Star>>, T, Some(w), <<>>, None, None)

EqualityStmts ==
    { Where(FieldEq("x", lit)) : lit \in FilterLiterals }
    \cup { Where(FieldEq("id", LString(A))), Where(FieldEq("id", LNull)) }

\* filters that use the field x where a boolean is expected
TruthStmts ==
    { Where(EField("x")),
      Where(EUnaryOp("Not", EField("x"))),
      Where(EBinaryOp(EField("x"), "Or", ELiteral(LBool(FALSE)))),
      Where(EBinaryOp(EField("x"), "And", ELiteral(LBool(TRUE)))) }

\* filters that order the field x against literals
StrZ == <<"z">>
OrderLiterals ==
    {LNull, LInt(5), LInt(7), LFloat(50), LFloat(45), LString(Str5), LString(StrZ),
     LBool(TRUE)}

BetweenBounds ==
    { <<LInt(5), LInt(7)>>, <<LInt(3), LInt(5)>>, <<LInt(6), LInt(7)>>,
      <<LFloat(45), LInt(5)>>, <<LFloat(51), LInt(7)>>,
      <<LString(Str5), LString(StrZ)>>, <<LNull, LInt(4)>>, <<LInt(6), LNull>>,
      <<LBool(FALSE), LBool(TRUE)>> }

OrderStmts ==
    { Where(EBinaryOp(EField("x"), op, ELiteral(lit))) :
        op \in {"Lt", "Le", "Gt", "Ge"}, lit \in OrderLiterals }
    \cup { Where(EBetween(EField("x"), ELiteral(b[1]), ELiteral(b[2]), FALSE)) :
             b \in BetweenBounds }

\* Database::open on a directory whose collection t holds one to
\* MaxFilterDocs of the rows
InitFilter ==
    /\ cols \in { [c \in {T} |-> files] :
                    files \in UNION { { [i \in 1..n |->
                                           File([id |-> IdSeq[i], fields |-> f[i][1],
                                                 body |-> f[i][2]])] :
                                        f \in [1..n -> FilterRows] } :
                                      n \in 1..(IF MaxFilterDocs < Len(IdSeq)
                                                THEN MaxFilterDocs ELSE Len(IdSeq)) } }
    /\ schemas = NoSchemas
    /\ views = NoViews
    /\ query = <<>>
    /\ commits = 0
    /\ faults = 0
    /\ stmt = [op |-> "None"]
    /\ result = Ok("None", 0, <<>>)
    /\ prev = [cols |-> cols, schemas |-> NoSchemas, views |-> NoViews, commits |-> 0]

NextFilter ==
    \/ Select(EqualityStmts)
    \/ Select(TruthStmts)
    \/ Select(OrderStmts)

SpecFilter == InitFilter /\ [][NextFilter]_vars

(***************************************************************************)
(* LIKE on a collection of documents with a field s                        *)
(***************************************************************************)
MaxLikeDocs == 1
MaxPattern == 2

LikeRows ==
    { <<EmptyFields, <<>>>>,
      <<OneField("s", VInt(5)), <<>>>>,
      <<OneField("s", VString(<<>>)), <<>>>>,
      <<OneField("s", VString(<<"a">>)), <<>>>>,
      <<OneField("s", VString(<<"a", "b">>)), <<>>>>,
      <<OneField("s", VString(<<"a", ".">>)), <<>>>>,
      <<OneField("s", VString(<<"a", "\n">>)), <<>>>>,
      <<OneField("s", VString(<<"a", "b", "a">>)), <<>>>> }

RECURSIVE Patterns(_)
Patterns(n) ==
    IF n = 0 THEN { <<>> }
    ELSE Patterns(n - 1)
         \cup { Append(p, c) : p \in Patterns(n - 1), c \in {"a", "b", "%", "_", "."} }

LikeStmts ==
    { Where(ELike(EField("s"), p, neg)) : p \in Patterns(MaxPattern), neg \in BOOLEAN }

InitLike ==
    /\ cols \in { [c \in {T} |-> files] :
                    files \in UNION { { [i \in 1..n |->
                                           File([id |-> IdSeq[i], fields |-> f[i][1],
                                                 body |-> f[i][2]])] :
                                        f \in [1..n -> LikeRows] } :
                                      n \in 1..(IF MaxLikeDocs < Len(IdSeq)
                                                THEN MaxLikeDocs ELSE Len(IdSeq)) } }
    /\ schemas = NoSchemas
    /\ views = NoViews
    /\ query = <<>>
    /\ commits = Len(cols[T])
    /\ faults = 0
    /\ stmt = [op |-> "None"]
    /\ result = Ok("None", 0, <<>>)
    /\ prev = [cols |-> cols, schemas |-> NoSchemas, views |-> NoViews,
               commits |-> commits]

NextLike ==
    \/ Select(LikeStmts)

SpecLike == InitLike /\ [][NextLike]_vars

(***************************************************************************)
(* Validation of documents against a schema of one declared field f        *)
(***************************************************************************)
BaseTypes == { TString, TInt, TFloat, TBool, TDate, TDateTime, TObject, TRef(T) }

FieldTypes == BaseTypes \cup { TArray(ft) : ft \in BaseTypes } \cup { TArray(TArray(TInt)) }

StrDateTime == StrDate \o <<"T", "1", "0", ":", "3", "0">>

ScalarValues ==
    { Null, VInt(5), VFloat(50), VFloat(55), VBool(TRUE), VString(StrNo), VString(StrDate),
      VString(StrDateTime), VObject(EmptyFields) }

TypeValues ==
    ScalarValues
    \cup { VArray(<<>>), VArray(<<VInt(1)>>), VArray(<<VString(StrNo)>>),
           VArray(<<VInt(1), VString(StrNo)>>), VArray(<<Null, VFloat(50)>>),
           VArray(<<VArray(<<VInt(1)>>)>>), VArray(<<VArray(<<VString(StrNo)>>)>>) }

\* documents with f, without f, and with an undeclared field g
TypeDocs ==
    { [id |-> A, fields |-> OneField("f", v), body |-> <<>>] : v \in TypeValues }
    \cup { [id |-> A, fields |-> OneField("g", v), body |-> <<>>] : v \in ScalarValues }
    \cup { [id |-> A, fields |-> [k \in {"f", "g"} |-> IF k = "f" THEN v ELSE VString(StrNo)],
             body |-> <<>>] : v \in ScalarValues }
    \cup { [id |-> A, fields |-> EmptyFields, body |-> <<>>] }

\* a schema for t that declares f is registered
InitTypes ==
    /\ cols = NoCollections
    /\ schemas \in { SchemaRegistry_register(NoSchemas,
                        [name |-> T,
                         fields |-> [k \in {"f"} |->
                                        [field_type |-> ft, required |-> FALSE,
                                         unique |-> FALSE, indexed |-> FALSE,
                                         default |-> None]]]) : ft \in FieldTypes }
    /\ views = NoViews
    /\ commits = 0
    /\ faults = 0
    /\ query = <<>>
    /\ stmt = [op |-> "None"]
    /\ result = Ok("None", 0, <<>>)
    /\ prev = [cols |-> NoCollections, schemas |-> schemas, views |-> NoViews,
               commits |-> 0]

\* Schema::validate of a document
Validate ==
    \E doc \in TypeDocs : \E r \in Schema_validate(schemas[T], doc) :
        /\ stmt' = [op |-> "Validate", doc |-> doc]
        /\ result' = IF r.kind = "Ok" THEN Ok("Valid", 0, <<>>) ELSE Err(r.kind, r.field)
        /\ UNCHANGED <<cols, schemas, views, commits, faults, query, prev>>

NextTypes ==
    \/ Validate

SpecTypes == InitTypes /\ [][NextTypes]_vars

(***************************************************************************)
(* CREATE COLLECTION t (f <type> <constraints>) given as a text            *)
(***************************************************************************)
\* the texts of the data types, each with the field type it declares
TypeTexts ==
    { [text |-> <<"S","T","R","I","N","G">>, ft |-> TString],
      [text |-> <<"I","N","T">>, ft |-> TInt],
      [text |-> <<"F","L","O","A","T">>, ft |-> TFloat],
      [text |-> <<"B","O","O","L">>, ft |-> TBool],
      [text |-> <<"D","A","T","E">>, ft |-> TDate],
      [text |-> <<"D","A","T","E","T","I","M","E">>, ft |-> TDateTime],
      [text |-> <<"O","B","J","E","C","T">>, ft |-> TObject],
      [text |-> <<"A","R","R","A","Y","<","I","N","T",">">>, ft |-> TArray(TInt)],
      [text |-> <<"a","r","r","a","y"," ","<","f","l","o","a","t",">">>, ft |-> TArray(TFloat)],
      [text |-> <<"A","R","R","A","Y","<","A","R","R","A","Y","<","S","T","R","I","N","G",">",">">>, ft |-> TArray(TArray(TString))],
      [text |-> <<"A","R","R","A","Y","<","D","A","T","E","T","I","M","E",">">>, ft |-> TArray(TDateTime)],
      [text |-> <<"R","E","F","<","t",">">>, ft |-> TRef(T)] }

\* texts of constraints, each with what it declares
ConstraintTexts ==
    { [text |-> <<>>,
       required |-> FALSE, unique |-> FALSE, indexed |-> FALSE, default |-> None],
      [text |-> <<" ","R","E","Q","U","I","R","E","D">>,
       required |-> TRUE, unique |-> FALSE, indexed |-> FALSE, default |-> None],
      [text |-> <<" ","u","n","i","q","u","e">>,
       required |-> FALSE, unique |-> TRUE, indexed |-> FALSE, default |-> None],
      [text |-> <<" ","I","N","D","E","X","E","D">>,
       required |-> FALSE, unique |-> FALSE, indexed |-> TRUE, default |-> None],
      [text |-> <<" ","D","E","F","A","U","L","T"," ","5">>,
       required |-> FALSE, unique |-> FALSE, indexed |-> FALSE, default |-> Some(literal_to_yaml(LInt(5)))],
      [text |-> <<" ","R","E","Q","U","I","R","E","D"," ","U","N","I","Q","U","E">>,
       required |-> TRUE, unique |-> TRUE, indexed |-> FALSE, default |-> None],
      [text |-> <<" ","I","N","D","E","X","E","D"," ","D","E","F","A","U","L","T"," ","N","U","L","L">>,
       required |-> FALSE, unique |-> FALSE, indexed |-> TRUE, default |-> Some(literal_to_yaml(LNull))],
      [text |-> <<" ","D","E","F","A","U","L","T"," ","t","r","u","e"," ","R","E","Q","U","I","R","E","D">>,
       required |-> TRUE, unique |-> FALSE, indexed |-> FALSE, default |-> Some(literal_to_yaml(LBool(TRUE)))],
      [text |-> <<" ","R","E","Q","U","I","R","E","D"," ","U","N","I","Q","U","E"," ","I","N","D","E","X","E","D">>,
       required |-> TRUE, unique |-> TRUE, indexed |-> TRUE, default |-> None] }

CreateText(type, constraints) ==
    Keyword.create \o <<" ">> \o Keyword.collection \o <<" ">> \o T \o <<" ", "(", "f", " ">>
        \o type \o constraints \o <<")">>

CreateTexts == { CreateText(tt.text, ct.text) : tt \in TypeTexts, ct \in ConstraintTexts }

\* a query text is given to a fresh database
InitCreate ==
    /\ cols = NoCollections
    /\ schemas = NoSchemas
    /\ views = NoViews
    /\ commits = 0
    /\ faults = 0
    /\ query \in CreateTexts
    /\ stmt = [op |-> "None"]
    /\ result = Ok("None", 0, <<>>)
    /\ prev = [cols |-> NoCollections, schemas |-> NoSchemas, views |-> NoViews,
               commits |-> 0]

\* executor.rs 15-26, on the statements that the parser of the model gives
execute(db, s) ==
    CASE s.op = "CreateCollection" -> execute_create_collection(db, s)
      [] s.op = "DropCollection" -> execute_drop_collection(db, s.name)
      [] s.op = "DropView" -> execute_drop_view(db, s.name)

\* Database::execute of the query text: it is parsed, and the statement
\* executed when it parses
Execute ==
    \E parsed \in { parse_statement(query) } :
        IF parsed.ok
        THEN Step(parsed.stmt, execute(Db, parsed.stmt))
        ELSE /\ stmt' = [op |-> "None"]
             /\ result' = Err("ParseError", "")
             /\ prev' = Db
             /\ UNCHANGED <<cols, schemas, views, commits, faults, query>>

NextCreate ==
    \/ Execute

SpecCreate == InitCreate /\ [][NextCreate]_vars

(***************************************************************************)
(* A collection t created with the column count INT REQUIRED               *)
(***************************************************************************)
CountSchema == create_schema(T, <<ColumnDef("count", [dt |-> "Int"], <<[c |-> "Required"]>>)>>)

SchemaInsertStmts ==
    { InsertStmt(T, <<"id", "count">>, <<LString(id), lit>>, None) :
        id \in {A, B}, lit \in {LInt(1), LFloat(50), LString(StrNo)} }
    \cup { InsertStmt(T, <<"id", "flag">>, <<LString(A), LBool(TRUE)>>, None) }

SchemaUpdateStmts ==
    { UpdateStmt(T, <<SetClause(k, ELiteral(lit))>>, w) :
        k \in {"count", "flag"},
        lit \in {LInt(2), LString(StrNo), LNull},
        w \in {None, Some(IdEq(A))} }

SchemaDeleteStmts == { DeleteStmt(T, w) : w \in {None, Some(IdEq(A))} }

\* the state after CREATE COLLECTION t (count INT REQUIRED) on a fresh database
InitSchema ==
    /\ cols = [c \in {T} |-> <<>>]
    /\ schemas = SchemaRegistry_register(NoSchemas, CountSchema)
    /\ views = NoViews
    /\ query = <<>>
    /\ commits = 1
    /\ faults = 0
    /\ stmt = [op |-> "None"]
    /\ result = Ok("None", 0, <<>>)
    /\ prev = [cols |-> cols, schemas |-> schemas, views |-> NoViews, commits |-> 1]

NextSchema ==
    \/ Insert(SchemaInsertStmts)
    \/ Update(SchemaUpdateStmts)
    \/ Delete(SchemaDeleteStmts)

SpecSchema == InitSchema /\ [][NextSchema]_vars

(***************************************************************************)
(* ORDER BY on documents whose field f holds integers, floats and strings  *)
(***************************************************************************)
OrderRows ==
    { <<EmptyFields, <<>>>>,
      <<OneField("f", VInt(1)), <<>>>>,
      <<OneField("f", VInt(5)), <<>>>>,
      <<OneField("f", VFloat(10)), <<>>>>,
      <<OneField("f", VFloat(25)), <<>>>>,
      <<OneField("f", VString(StrA)), <<>>>>,
      <<OneField("f", VString(StrB)), <<>>>> }

OrderByStmts ==
    { SelectStmt(<<Star>>, T, None, <<OrderBy("f", dir)>>, limit, None) :
        dir \in {"Asc", "Desc"}, limit \in {None, Some(1)} }

InitOrder ==
    /\ cols \in { [c \in {T} |-> files] :
                    files \in UNION { { [i \in 1..n |->
                                           File([id |-> IdSeq[i], fields |-> f[i][1],
                                                 body |-> f[i][2]])] :
                                        f \in [1..n -> OrderRows] } :
                                      n \in 1..(IF MaxFilterDocs < Len(IdSeq)
                                                THEN MaxFilterDocs ELSE Len(IdSeq)) } }
    /\ schemas = NoSchemas
    /\ views = NoViews
    /\ query = <<>>
    /\ commits = Len(cols[T])
    /\ faults = 0
    /\ stmt = [op |-> "None"]
    /\ result = Ok("None", 0, <<>>)
    /\ prev = [cols |-> cols, schemas |-> NoSchemas, views |-> NoViews,
               commits |-> commits]

NextOrder ==
    \/ Select(OrderByStmts)

SpecOrder == InitOrder /\ [][NextOrder]_vars

(***************************************************************************)
(* Parsing of query texts                                                  *)
(***************************************************************************)
MaxTrail == 3

RECURSIVE SeqsUpTo(_, _)
SeqsUpTo(S, n) ==
    IF n = 0 THEN { <<>> }
    ELSE SeqsUpTo(S, n - 1) \cup { Append(q, c) : q \in SeqsUpTo(S, n - 1), c \in S }

DropCollectionText == Keyword.drop \o <<" ">> \o Keyword.collection \o <<" ">> \o T
DropViewText == <<"d","r","o","p">> \o <<" ", "\n">> \o <<"v","i","e","w">> \o <<" ">> \o V

StatementTexts ==
    { DropCollectionText, DropViewText,
      Keyword.drop \o <<" ">> \o Keyword.collection,
      Keyword.drop \o Keyword.view \o <<" ">> \o V }

Trails ==
    SeqsUpTo({" ", ";", "x"}, MaxTrail)
    \cup { <<";">> \o DropViewText,
           <<";", " ">> \o DropViewText \o <<";">>,
           <<" ">> \o DropViewText }

QueryTexts ==
    { lead \o text \o trail :
        lead \in { <<>>, <<" ">> }, text \in StatementTexts, trail \in Trails }

\* a query text is given
InitParse ==
    /\ cols = NoCollections
    /\ schemas = NoSchemas
    /\ views = NoViews
    /\ commits = 0
    /\ faults = 0
    /\ query \in QueryTexts
    /\ stmt = [op |-> "None"]
    /\ result = Ok("None", 0, <<>>)
    /\ prev = [cols |-> NoCollections, schemas |-> NoSchemas, views |-> NoViews,
               commits |-> 0]

\* mdql::parse of the query text
Parse ==
    /\ \E parsed \in { parse_statement(query) } :
          /\ stmt' = parsed.stmt
          /\ result' = IF parsed.ok THEN Ok("Parsed", 0, <<>>) ELSE Err("ParseError", "")
    /\ UNCHANGED <<cols, schemas, views, commits, faults, query, prev>>

NextParse ==
    \/ Parse

SpecParse == InitParse /\ [][NextParse]_vars

(***************************************************************************)
(* Properties of INSERT and CREATE COLLECTION                              *)
(***************************************************************************)
\* the files of a collection directory, none when there is no directory
Files(db, c) == IF c \in DOMAIN db.cols THEN db.cols[c] ELSE <<>>

\* the string literals an INSERT gives for columns named `id`
StringIds(s) ==
    { s.values[i].s : i \in { j \in 1..Len(s.columns) :
                                /\ s.columns[j] = "id"
                                /\ j <= Len(s.values)
                                /\ s.values[j].l = "String" } }

\* the literals an INSERT gives for column k
Given(s, k) ==
    { s.values[i] : i \in { j \in 1..Len(s.columns) :
                              s.columns[j] = k /\ j <= Len(s.values) } }

\* an INSERT into a validly named collection with one valid string id
WellFormedInsert ==
    /\ stmt.op = "Insert"
    /\ validate_collection_name(stmt.into) = "Ok"
    /\ Cardinality(StringIds(stmt)) = 1
    /\ \A id \in StringIds(stmt) : validate_document_id(id) = "Ok"

\* the id of a well-formed INSERT is not in the collection yet
FreshId == \A id \in StringIds(stmt) : ~FileExists(prev.cols, stmt.into, id)

\* the document of a well-formed INSERT is in the collection afterwards, with
\* the given value for column k
Persisted(k, val) ==
    \A id \in StringIds(stmt) :
        \E i \in 1..Len(Files(Db, stmt.into)) :
            LET doc == Collection_list(cols, stmt.into)[i]
            IN doc.id = id /\ k \in DOMAIN doc.fields /\ doc.fields[k] = val

\* C1, as claimed: every INSERT without a string-valued `id` column fails
\* with the missing-id error and adds no document.
C1_EveryInsertWithoutId ==
    (stmt.op = "Insert" /\ StringIds(stmt) = {}) =>
        /\ ~result.ok
        /\ result.kind = "MissingDocumentId"
        /\ Files(Db, stmt.into) = Files(prev, stmt.into)

\* C1, amended: every INSERT into a validly named collection that has no
\* string-valued `id` column fails with the missing-id error, with or without
\* a registered schema, and adds no document.
C1_InsertRequiresId ==
    (/\ stmt.op = "Insert"
     /\ StringIds(stmt) = {}
     /\ validate_collection_name(stmt.into) = "Ok") =>
        /\ ~result.ok
        /\ result.kind = "MissingDocumentId"
        /\ Files(Db, stmt.into) = Files(prev, stmt.into)

\* an INSERT without `id` into a collection whose schema has a required
\* field was refused for the missing id
C1_Witness ==
    /\ stmt.op = "Insert"
    /\ StringIds(stmt) = {}
    /\ stmt.into \in DOMAIN prev.schemas
    /\ \E f \in DOMAIN prev.schemas[stmt.into].fields :
          prev.schemas[stmt.into].fields[f].required
    /\ result.kind = "MissingDocumentId"

\* C2: an INSERT that returns an error leaves the collections, their
\* documents, the schema registry and the number of commits as they were.
C2_FailedInsertChangesNothing ==
    (stmt.op = "Insert" /\ ~result.ok) => Db = prev

\* C3: no collection holds two documents of one id, and an INSERT of an id
\* that is in the collection already fails and leaves the collection's files
\* as they were.
C3_NoDuplicateIds ==
    /\ \A c \in DOMAIN cols :
          \A i, j \in 1..Len(cols[c]) : cols[c][i].name = cols[c][j].name => i = j
    /\ (/\ stmt.op = "Insert"
        /\ \E id \in StringIds(stmt) : FileExists(prev.cols, stmt.into, id)) =>
           /\ ~result.ok
           /\ Files(Db, stmt.into) = Files(prev, stmt.into)

\* an INSERT was refused because the document exists
C3_Witness ==
    /\ stmt.op = "Insert"
    /\ result.kind = "DocumentExists"
    /\ Len(Files(Db, stmt.into)) >= 1

\* the schema registered for the target of an INSERT before it ran
TargetFields ==
    IF stmt.into \in DOMAIN prev.schemas THEN prev.schemas[stmt.into].fields
    ELSE EmptyFields

\* the INSERT names every field its target's schema requires
NamesRequired ==
    \A f \in DOMAIN TargetFields :
        TargetFields[f].required => \E i \in 1..Len(stmt.columns) : stmt.columns[i] = f

\* the INSERT was refused for field f with an error of this kind, and no
\* document was persisted
Refused(kind, f) ==
    /\ ~result.ok
    /\ result.kind = kind
    /\ result.field = f
    /\ Files(Db, stmt.into) = Files(prev, stmt.into)

\* C4: on a well-formed INSERT into a collection with a schema, a string for
\* an INT column, a string for a BOOL column and a non-date string for a DATE
\* column are refused with a type mismatch and nothing is persisted; the
\* integer 42 and the float 42.0 for an INT column are accepted and the
\* document of a new id is persisted.
C4_ColumnTypesChecked ==
    (WellFormedInsert /\ NamesRequired) =>
        \A f \in DOMAIN TargetFields : \A lit \in Given(stmt, f) :
            LET ft == TargetFields[f].field_type.ft
            IN /\ (ft = "Int" /\ lit.l = "String") => Refused("TypeMismatch", f)
               /\ (ft = "Bool" /\ lit.l = "String") => Refused("TypeMismatch", f)
               /\ (ft = "Date" /\ lit = LString(StrNo)) => Refused("TypeMismatch", f)
               /\ (ft = "Int" /\ lit \in {LInt(42), LFloat(420)} /\ FreshId) =>
                     /\ result.ok
                     /\ Persisted(f, literal_to_value(lit))

\* a string for an INT column was refused
C4_Witness ==
    /\ WellFormedInsert
    /\ \E f \in DOMAIN TargetFields :
          /\ TargetFields[f].field_type.ft = "Int"
          /\ \E lit \in Given(stmt, f) : lit.l = "String"
    /\ result.kind = "TypeMismatch"

\* C5: on a well-formed INSERT into a collection whose schema has a REQUIRED
\* column, not naming the column is refused with a missing-required error and
\* nothing is persisted; naming it with NULL is accepted and the document of a
\* new id is persisted with the null value.
C5_RequiredColumn ==
    WellFormedInsert =>
        \A f \in DOMAIN TargetFields :
            TargetFields[f].required =>
               /\ (\A i \in 1..Len(stmt.columns) : stmt.columns[i] # f) =>
                     Refused("MissingRequired", f)
               /\ (Given(stmt, f) = {LNull} /\ FreshId) =>
                     /\ result.ok
                     /\ Persisted(f, Null)

\* NULL for a REQUIRED column was accepted
C5_Witness ==
    /\ WellFormedInsert
    /\ \E f \in DOMAIN TargetFields :
          TargetFields[f].required /\ Given(stmt, f) = {LNull}
    /\ result.ok

\* C6: on a collection that exists, CREATE IF NOT EXISTS COLLECTION succeeds
\* and leaves every document and schema as it was, with or without column
\* definitions; CREATE COLLECTION fails with the already-exists error and
\* changes nothing.
C6_CreateExistingCollection ==
    (stmt.op = "CreateCollection" /\ stmt.name \in DOMAIN prev.cols) =>
        IF stmt.if_not_exists
        THEN result.ok /\ cols = prev.cols /\ schemas = prev.schemas
        ELSE ~result.ok /\ result.kind = "CollectionExists" /\ Db = prev

\* CREATE IF NOT EXISTS COLLECTION with columns ran on a collection that holds
\* a document and has another schema
C6_Witness ==
    /\ stmt.op = "CreateCollection"
    /\ stmt.if_not_exists
    /\ stmt.columns # <<>>
    /\ stmt.name \in DOMAIN prev.cols
    /\ Len(prev.cols[stmt.name]) >= 1
    /\ stmt.name \in DOMAIN prev.schemas
    /\ prev.schemas[stmt.name] # create_schema(stmt.name, stmt.columns)
    /\ result.ok

(***************************************************************************)
(* Properties of UPDATE and DELETE                                         *)
(***************************************************************************)
\* the document satisfies the WHERE clause, or there is none
Satisfies(doc, where_clause) == where_clause = None \/ evaluate(where_clause[1], doc)

\* the documents of a sequence
Range(seq) == { seq[i] : i \in 1..Len(seq) }

\* the document with the columns of literal SET clauses at their values, the
\* last clause of a column counting
Changed(doc, set) ==
    LET named == { set[i].column : i \in 1..Len(set) }
        last(k) == Max({ i \in 1..Len(set) : set[i].column = k })
    IN [doc EXCEPT !.fields =
           [k \in DOMAIN doc.fields \cup named |->
               IF k \in named THEN literal_to_value(set[last(k)].value.lit)
               ELSE doc.fields[k]]]

\* C7: an UPDATE whose SET clauses give literals reports the number of
\* documents that satisfied its WHERE clause before it ran; afterwards the
\* collection holds those documents with the SET columns at their new values
\* and every other document as it was; when no document satisfied the clause
\* it reports 0 and changes nothing.
C7_UpdateChangesMatching ==
    (/\ stmt.op = "Update"
     /\ result.ok
     /\ \A i \in 1..Len(stmt.set) : stmt.set[i].value.e = "Literal") =>
        LET before == Collection_list(prev.cols, stmt.collection)
            after == Collection_list(cols, stmt.collection)
            hit == { i \in 1..Len(before) : Satisfies(before[i], stmt.where_clause) }
        IN /\ result.n = Cardinality(hit)
           /\ Len(after) = Len(before)
           /\ Range(after) = { IF i \in hit THEN Changed(before[i], stmt.set) ELSE before[i] :
                                 i \in 1..Len(before) }
           /\ hit = {} => Db = prev

\* an UPDATE with a WHERE clause changed one document of three and left a
\* document that did not satisfy the clause
C7_Witness ==
    /\ stmt.op = "Update"
    /\ stmt.where_clause # None
    /\ result.ok
    /\ result.n = 1
    /\ Len(Collection_list(prev.cols, stmt.collection)) = 3
    /\ \E d \in Range(Collection_list(prev.cols, stmt.collection)) :
          /\ Satisfies(d, stmt.where_clause)
          /\ Changed(d, stmt.set) # d
          /\ Changed(d, stmt.set) \in Range(Collection_list(cols, stmt.collection))

\* C8: after a DELETE the collection holds the documents that did not satisfy
\* the WHERE clause, none when there is no clause, each as it was, and the
\* number reported is the number of documents removed.
C8_DeleteRemovesMatching ==
    (stmt.op = "Delete" /\ result.ok) =>
        LET before == Collection_list(prev.cols, stmt.from)
            after == Collection_list(cols, stmt.from)
            hit == { i \in 1..Len(before) : Satisfies(before[i], stmt.where_clause) }
        IN /\ Range(after) = { before[i] : i \in (1..Len(before)) \ hit }
           /\ Len(after) = Len(before) - Cardinality(hit)
           /\ result.n = Len(before) - Len(after)
           /\ stmt.where_clause = None => after = <<>>

\* a DELETE with a WHERE clause removed two documents of three
C8_Witness ==
    /\ stmt.op = "Delete"
    /\ stmt.where_clause # None
    /\ result.ok
    /\ result.n = 2
    /\ Len(Collection_list(prev.cols, stmt.from)) = 3
    /\ Len(Collection_list(cols, stmt.from)) = 1

(***************************************************************************)
(* Properties of SELECT                                                    *)
(***************************************************************************)
\* the documents a SELECT scanned that satisfy its WHERE clause, in scan order
Filtered ==
    LET scanned == Collection_list(prev.cols, stmt.from)
        hit == { i \in 1..Len(scanned) : Satisfies(scanned[i], stmt.where_clause) }
        nth(n) == CHOOSE i \in hit : Cardinality({ h \in hit : h < i }) = n - 1
    IN [n \in 1..Cardinality(hit) |-> scanned[nth(n)]]

\* the position of a document in a sequence of documents
PositionIn(docs, d) == CHOOSE i \in 1..Len(docs) : docs[i].id = d.id

\* value x of a key sorts before value y ascending: nothing before anything,
\* integers and floats by magnitude, strings by character, false before true
SortsBefore(x, y) ==
    CASE x = None -> y # None
      [] y = None -> FALSE
      [] x[1].t = "Int" /\ y[1].t = "Int" -> x[1].i < y[1].i
      [] x[1].t = "Float" /\ y[1].t = "Float" -> x[1].f < y[1].f
      [] x[1].t = "String" /\ y[1].t = "String" -> StrCmp(x[1].s, y[1].s) < 0
      [] x[1].t = "Bool" /\ y[1].t = "Bool" -> ~x[1].b /\ y[1].b
      [] OTHER -> FALSE

\* document a has to come before document b: on the earliest key on which
\* they differ a sorts before b, in the direction of the key
RECURSIVE MustPrecede(_, _, _)
MustPrecede(a, b, order_by) ==
    IF order_by = <<>> THEN FALSE
    ELSE LET x == fields_get(a, Head(order_by).column)
             y == fields_get(b, Head(order_by).column)
         IN IF x = y THEN MustPrecede(a, b, Tail(order_by))
            ELSE IF Head(order_by).direction = "Asc" THEN SortsBefore(x, y)
            ELSE SortsBefore(y, x)

\* the two documents have the same value, or both none, under every key
EqualUnderKeys(a, b, order_by) ==
    \A n \in 1..Len(order_by) :
        fields_get(a, order_by[n].column) = fields_get(b, order_by[n].column)

\* the result of a SELECT * without LIMIT and OFFSET is the filtered
\* documents in the order that ORDER BY asks for
ResultSorted ==
    /\ Len(result.docs) = Len(Filtered)
    /\ Range(result.docs) = Range(Filtered)
    /\ \A i, j \in 1..Len(result.docs) :
          i < j =>
             /\ ~MustPrecede(result.docs[j], result.docs[i], stmt.order_by)
             /\ EqualUnderKeys(result.docs[i], result.docs[j], stmt.order_by) =>
                   PositionIn(Filtered, result.docs[i]) < PositionIn(Filtered, result.docs[j])

OrderedSelect ==
    /\ stmt.op = "Select"
    /\ result.ok
    /\ stmt.order_by # <<>>
    /\ stmt.limit = None
    /\ stmt.offset = None
    /\ stmt.columns = <<Star>>

\* the values the filtered documents have under an ORDER BY key are all
\* integers, all floats, all strings or all booleans
UniformKeys ==
    \A n \in 1..Len(stmt.order_by) :
        LET types == { d.fields[stmt.order_by[n].column].t :
                         d \in { e \in Range(Filtered) :
                                   stmt.order_by[n].column \in DOMAIN e.fields } }
        IN Cardinality(types) <= 1 /\ types \subseteq {"Int", "Float", "String", "Bool"}

\* C9, as claimed: the result of every SELECT with ORDER BY is sorted: the
\* earliest key on which two documents differ decides their order, a missing
\* key sorts first ascending and last descending, DESC reverses the order of
\* integers and of strings, and documents equal under every key keep their
\* scan order.
C9_ResultAlwaysSorted == OrderedSelect => ResultSorted

\* C9, amended: the result is sorted in this way when the values under each
\* ORDER BY key are of one type among integer, float, string and boolean.
C9_ResultSortedOnUniformKeys == (OrderedSelect /\ UniformKeys) => ResultSorted

\* ORDER BY k DESC gave 10, 5, 1 for a scan that had met them in another order
C9_Witness ==
    /\ OrderedSelect
    /\ UniformKeys
    /\ stmt.order_by = <<OrderBy("k", "Desc")>>
    /\ Len(result.docs) = 3
    /\ fields_get(result.docs[1], "k") = Some(VInt(10))
    /\ fields_get(result.docs[2], "k") = Some(VInt(5))
    /\ fields_get(result.docs[3], "k") = Some(VInt(1))
    /\ result.docs # Filtered

\* positions m+1 to min(m+n, Len(docs)) of the documents
Page(docs, m, n) ==
    LET to == IF m + n < Len(docs) THEN m + n ELSE Len(docs)
    IN [i \in 1..(IF to > m THEN to - m ELSE 0) |-> docs[m + i]]

\* C10: the result of a SELECT * is positions m+1 to min(m+n, |L|) of the
\* filtered and sorted list L, for OFFSET m, 0 when there is none, and LIMIT
\* n, |L| when there is none; an OFFSET of |L| or more gives the empty result
\* and no error.
C10_OffsetThenLimit ==
    (stmt.op = "Select" /\ stmt.from \in DOMAIN prev.cols /\ stmt.columns = <<Star>>) =>
        LET m == IF stmt.offset = None THEN 0 ELSE stmt.offset[1]
            n == IF stmt.limit = None THEN Len(Filtered) ELSE stmt.limit[1]
            lists == IF stmt.order_by = <<>> THEN { Filtered }
                     ELSE sort_by(Filtered, stmt.order_by)
        IN /\ result.ok
           /\ \E L \in lists : result.docs = Page(L, m, n)
           /\ m >= Len(Filtered) => result.docs = <<>>

\* OFFSET 1 LIMIT 1 gave the second of three documents
C10_Witness ==
    /\ stmt.op = "Select"
    /\ stmt.order_by = <<>>
    /\ stmt.offset = Some(1)
    /\ stmt.limit = Some(1)
    /\ Len(Filtered) = 3
    /\ result.docs = <<Filtered[2]>>

(***************************************************************************)
(* Properties of filters                                                   *)
(***************************************************************************)
\* a SELECT * that filters on `f = L` and neither sorts nor pages
EqualitySelect ==
    /\ stmt.op = "Select"
    /\ result.ok
    /\ stmt.where_clause # None
    /\ stmt.where_clause[1].e = "BinaryOp"
    /\ stmt.where_clause[1].op = "Eq"
    /\ stmt.where_clause[1].left.e = "Column"
    /\ stmt.where_clause[1].left.col.c = "Field"
    /\ stmt.where_clause[1].right.e = "Literal"
    /\ stmt.order_by = <<>>
    /\ stmt.limit = None
    /\ stmt.offset = None
    /\ stmt.columns = <<Star>>

\* the field map of the document holds f with a value structurally equal to
\* the literal; a field that is missing or null is equal to NULL only
HoldsEqual(doc, f, lit) ==
    IF f \in DOMAIN doc.fields /\ doc.fields[f] # Null
    THEN doc.fields[f] = literal_to_value(lit)
    ELSE lit = LNull

\* the documents of the result are the scanned documents whose field map
\* holds the field of the filter with a value equal to its literal
ResultHoldsEqual ==
    LET scanned == Collection_list(prev.cols, stmt.from)
        f == stmt.where_clause[1].left.col.name
        lit == stmt.where_clause[1].right.lit
    IN Range(result.docs) = { d \in Range(scanned) : HoldsEqual(d, f, lit) }

WhereIdIs(clause) ==
    /\ clause # None
    /\ clause[1].e = "BinaryOp"
    /\ clause[1].op = "Eq"
    /\ clause[1].left = EField("id")
    /\ clause[1].right.e = "Literal"
    /\ clause[1].right.lit.l = "String"

\* the documents of the sequence whose id is not x
FilesBut(files, x) == { files[i] : i \in { j \in 1..Len(files) : files[j].name # x } }

Target ==
    CASE stmt.op \in {"Select", "Delete"} -> stmt.from
      [] stmt.op = "Update" -> stmt.collection
      [] stmt.op = "Insert" -> stmt.into
      [] stmt.op \in {"CreateCollection", "DropCollection", "CreateView", "DropView"} ->
            stmt.name
      [] OTHER -> <<>>

\* C13: SELECT, UPDATE and DELETE on a validly named collection that does not
\* exist fail with the does-not-exist error and change nothing; a successful
\* DROP COLLECTION leaves no collection of that name, so that every SELECT on
\* it fails in this way for as long as it does not exist again; DROP
\* COLLECTION of a collection that does not exist fails and changes nothing.
C13_MissingCollection ==
    /\ (/\ stmt.op \in {"Select", "Update", "Delete"}
        /\ validate_collection_name(Target) = "Ok"
        /\ Target \notin DOMAIN prev.cols) =>
           ~result.ok /\ result.kind = "CollectionNotFound" /\ Db = prev
    /\ (stmt.op = "DropCollection" /\ result.ok) =>
           Target \in DOMAIN prev.cols /\ Target \notin DOMAIN cols
    /\ (stmt.op = "DropCollection" /\ Target \notin DOMAIN prev.cols) =>
           ~result.ok /\ Db = prev

\* a SELECT failed on a collection that had been created with a schema and
\* dropped
C13_Witness ==
    /\ stmt.op = "Select"
    /\ result.kind = "CollectionNotFound"
    /\ Target \in DOMAIN prev.schemas
    /\ Target \notin DOMAIN cols

(***************************************************************************)
(* Properties of names                                                     *)
(***************************************************************************)
\* every collection, document and view of the database has a valid name
PersistedNamesValid(db) ==
    /\ \A c \in DOMAIN db.cols :
          /\ validate_collection_name(c) = "Ok"
          /\ \A i \in 1..Len(db.cols[c]) : validate_document_id(db.cols[c][i].name) = "Ok"
    /\ \A v \in DOMAIN db.views : validate_view_name(v) = "Ok"

\* the statement last executed names a collection, a view or a document id
\* that fails validation
NamesInvalid ==
    \/ /\ stmt.op # "None"
       /\ (IF stmt.op \in {"CreateView", "DropView"}
           THEN validate_view_name(Target)
           ELSE validate_collection_name(Target)) # "Ok"
    \/ /\ stmt.op = "Insert"
       /\ \E id \in StringIds(stmt) : validate_document_id(id) # "Ok"

\* C14: every collection, view and document that exists has a name or id
\* that passes identifier validation, and a statement whose collection name,
\* view name or document id fails validation is rejected with nothing
\* created.
C14_OnlyValidNamesPersisted ==
    /\ PersistedNamesValid(Db)
    /\ NamesInvalid => ~result.ok /\ Db = prev

\* valid names only, and rejection of the statements that name an invalid one
NamesValidAndRejected == PersistedNamesValid(Db) /\ (NamesInvalid => ~result.ok)

(***************************************************************************)
(* Properties of commits                                                   *)
(***************************************************************************)
Mutating ==
    {"Insert", "Update", "Delete", "CreateCollection", "CreateView",
     "DropCollection", "DropView"}

\* the statement last executed changed something: it is not an UPDATE or
\* DELETE that matched no document, nor a CREATE COLLECTION IF NOT EXISTS of
\* a collection that exists
Effective ==
    /\ stmt.op \in {"Update", "Delete"} => result.n > 0
    /\ stmt.op = "CreateCollection" => Target \notin DOMAIN prev.cols

Terminators == {" ", "\n", "\t", "\r", ";"}

\* the text is one recognized statement, with whitespace around it, and then
\* nothing but whitespace and `;`
OneStatement(text) ==
    \E i \in 1..Len(text) : \E j \in i..Len(text) :
        /\ \A k \in 1..(i - 1) : is_whitespace(text[k])
        /\ statement(SubSeq(text, i, j)) # <<>>
        /\ statement(SubSeq(text, i, j))[1].rest = <<>>
        /\ \A k \in (j + 1)..Len(text) : text[k] \in Terminators

\* what the statement parser leaves of the text
Remaining(text) == statement(trim(text))[1].rest

\* C16: parse succeeds only on a text that is exactly one recognized
\* statement followed by nothing but whitespace and `;`; a text with any
\* other content after the statement, a second statement after a `;`
\* included, fails, and every failure is a ParseError.
C16_TrailingContentRejected ==
    result.kind # "None" =>
        /\ result.ok => OneStatement(query) /\ stmt = statement(trim(query))[1].val
        /\ (/\ statement(trim(query)) # <<>>
            /\ \E k \in 1..Len(Remaining(query)) : Remaining(query)[k] \notin Terminators)
              => ~result.ok
        /\ ~result.ok => result.kind = "ParseError"

\* a statement followed by `;` was parsed
C16_Witness ==
    /\ result.kind = "Parsed"
    /\ stmt.op = "DropCollection"
    /\ \E k \in 1..Len(query) : query[k] = ";"

(***************************************************************************)
(* Properties of SET                                                       *)
(***************************************************************************)
\* the value a SET clause writes when it is evaluated on the document
SetValue(clause, doc) == evaluate_set_value(clause.value, doc)

\* the document after its first n SET clauses, each evaluated on the
\* document as the clauses before it left it
RECURSIVE InTurn(_, _, _)
InTurn(doc, set, n) ==
    IF n = 0 THEN doc
    ELSE LET d == InTurn(doc, set, n - 1)
         IN [d EXCEPT !.fields =
                [k \in DOMAIN d.fields \cup {set[n].column} |->
                    IF k = set[n].column THEN SetValue(set[n], d) ELSE d.fields[k]]]

\* the document after its SET clauses, each evaluated on the document as it
\* was before the statement, the last clause of a column counting
FromBefore(doc, set) ==
    LET named == { set[i].column : i \in 1..Len(set) }
        last(k) == Max({ i \in 1..Len(set) : set[i].column = k })
    IN [doc EXCEPT !.fields =
           [k \in DOMAIN doc.fields \cup named |->
               IF k \in named THEN SetValue(set[last(k)], doc) ELSE doc.fields[k]]]

\* the documents the UPDATE scanned
Scanned == Range(Collection_list(prev.cols, stmt.collection))

\* the documents of the collection after the UPDATE are the documents before
\* it, those that satisfied the WHERE clause replaced by what the function
\* gives for them
UpdatedTo(changed) ==
    LET before == Collection_list(prev.cols, stmt.collection)
        after == Collection_list(cols, stmt.collection)
    IN /\ Len(after) = Len(before)
       /\ Range(after) = { IF Satisfies(before[i], stmt.where_clause)
                           THEN changed[before[i]]
                           ELSE before[i] : i \in 1..Len(before) }

SwapAB == <<SetClause("a", EField("b")), SetClause("b", EField("a"))>>

\* C17 as stated: every SET value is evaluated against the document as it
\* was before the statement, so SET a = b, b = a swaps a and b.
C17_SetSeesSnapshot ==
    (stmt.op = "Update" /\ result.ok) =>
        UpdatedTo([d \in Scanned |-> FromBefore(d, stmt.set)])

\* C17: every SET value is evaluated against the document as the earlier
\* clauses of the statement left it, so a later clause sees an earlier
\* clause's write: after SET a = b, b = a on a document with a = 1, b = 2
\* the document has a = 2 and b = 2.
C17_SetSeesEarlierClauses ==
    (stmt.op = "Update" /\ result.ok) =>
        UpdatedTo([d \in Scanned |-> InTurn(d, stmt.set, Len(stmt.set))])

\* SET a = b, b = a ran on a document with a = 1 and b = 2 and left a = 2
\* and b = 2
C17_Witness ==
    /\ stmt.op = "Update"
    /\ stmt.set = SwapAB
    /\ result.ok
    /\ \E i \in 1..Len(Collection_list(prev.cols, T)) :
          LET d == Collection_list(prev.cols, T)[i]
          IN /\ DOMAIN d.fields = {"a", "b"}
             /\ d.fields["a"] = VInt(1)
             /\ d.fields["b"] = VInt(2)
             /\ Satisfies(d, stmt.where_clause)
             /\ \E e \in Range(Collection_list(cols, T)) :
                   /\ e.id = d.id
                   /\ e.fields["a"] = VInt(2)
                   /\ e.fields["b"] = VInt(2)

\* the value of a result of the expression evaluator
ResultValue(r) ==
    CASE r.r = "Value" -> r.v
      [] r.r = "Bool" -> VBool(r.b)
      [] OTHER -> Null

\* the document after its first n SET clauses, each at the value the
\* expression evaluator gives on the document as the clauses before it left it
RECURSIVE Evaluated(_, _, _)
Evaluated(doc, set, n) ==
    IF n = 0 THEN doc
    ELSE LET d == Evaluated(doc, set, n - 1)
         IN [d EXCEPT !.fields =
                [k \in DOMAIN d.fields \cup {set[n].column} |->
                    IF k = set[n].column
                    THEN ResultValue(evaluate_expr(set[n].value, d))
                    ELSE d.fields[k]]]

\* C18: for every SET clause col = e of an UPDATE and every matched
\* document, the value written to col is the value the expression evaluator
\* gives for e on that document, whatever expression e is.
C18_SetWritesEvaluatedValue ==
    (stmt.op = "Update" /\ result.ok) =>
        UpdatedTo([d \in Scanned |-> Evaluated(d, stmt.set, Len(stmt.set))])

(***************************************************************************)
(* Properties of a failure of the store                                    *)
(***************************************************************************)
\* the positions, in the scan before the statement, of the first n documents
\* that satisfied the WHERE clause
FirstHits(n) ==
    LET before == Collection_list(prev.cols, Target)
        hit == { i \in 1..Len(before) : Satisfies(before[i], stmt.where_clause) }
    IN { i \in hit : Cardinality({ h \in hit : h < i }) < n }

\* C19: when the store returns an error on the k-th matched document of an
\* UPDATE or DELETE, the first k-1 matched documents, in scan order, are
\* changed or deleted, the k-th and the later ones and every other document
\* are as they were, the statement returns the error, and no commit is
\* signalled.
C19_PartialFailure ==
    (stmt.op \in {"Update", "Delete"} /\ result.kind = "Io") =>
        LET before == Collection_list(prev.cols, Target)
            after == Collection_list(cols, Target)
        IN /\ ~result.ok
           /\ commits = prev.commits
           /\ schemas = prev.schemas
           /\ \E k \in 1..Cardinality(FirstHits(Len(before))) :
                 IF stmt.op = "Update"
                 THEN /\ Len(after) = Len(before)
                      /\ Range(after) =
                            { IF i \in FirstHits(k - 1)
                              THEN Changed(before[i], stmt.set)
                              ELSE before[i] : i \in 1..Len(before) }
                 ELSE /\ Len(after) = Len(before) - (k - 1)
                      /\ Range(after) =
                            { before[i] : i \in (1..Len(before)) \ FirstHits(k - 1) }

\* an UPDATE failed after it had changed a matched document and before it
\* changed another
C19_Witness ==
    /\ stmt.op = "Update"
    /\ result.kind = "Io"
    /\ cols # prev.cols
    /\ \E d \in Range(Collection_list(prev.cols, Target)) :
          /\ Satisfies(d, stmt.where_clause)
          /\ Changed(d, stmt.set) # d
          /\ d \in Range(Collection_list(cols, Target))

(***************************************************************************)
(* Properties of truthiness                                                *)
(***************************************************************************)
\* the expression is true of the document when only the boolean true counts
\* as true: a field that holds anything else, or nothing, is false
RECURSIVE OnlyTrueIsTrue(_, _)
OnlyTrueIsTrue(expr, doc) ==
    CASE expr.e = "Literal" -> expr.lit = LBool(TRUE)
      [] expr.e = "Column" ->
            /\ expr.col.name \in DOMAIN doc.fields
            /\ doc.fields[expr.col.name] = VBool(TRUE)
      [] expr.e = "UnaryOp" -> ~OnlyTrueIsTrue(expr.expr, doc)
      [] expr.e = "BinaryOp" /\ expr.op = "And" ->
            OnlyTrueIsTrue(expr.left, doc) /\ OnlyTrueIsTrue(expr.right, doc)
      [] expr.e = "BinaryOp" /\ expr.op = "Or" ->
            OnlyTrueIsTrue(expr.left, doc) \/ OnlyTrueIsTrue(expr.right, doc)

\* C20: where a boolean is expected (the operands of AND, OR and NOT and the
\* WHERE result) only the boolean true counts as true and nothing is an
\* error: a SELECT that filters on x, NOT x, x OR false or x AND true
\* succeeds and returns the documents of which the filter is true in that
\* sense, so NOT x keeps and x OR false drops a document whose x is 5.
C20_OnlyTrueIsTruthy ==
    (stmt \in TruthStmts) =>
        /\ result.ok
        /\ Range(result.docs) =
              { d \in Range(Collection_list(prev.cols, stmt.from)) :
                    OnlyTrueIsTrue(stmt.where_clause[1], d) }

(***************************************************************************)
(* Properties of the ordering comparator                                   *)
(***************************************************************************)
\* the value of field x of the document, null when it has none
XOf(doc) == IF "x" \in DOMAIN doc.fields THEN doc.fields["x"] ELSE Null

\* an Int or a Float, in tenths
Tenths(v) == IF v.t = "Int" THEN 10 * v.i ELSE v.f

\* -1, 0 or 1 as v is below, level with or above w by value, for two numbers
\* or two strings; 0 for every other pairing
ByValue(v, w) ==
    IF v.t \in {"Int", "Float"} /\ w.t \in {"Int", "Float"}
    THEN IntCmp(Tenths(v), Tenths(w))
    ELSE IF v.t = "String" /\ w.t = "String" THEN StrCmp(v.s, w.s)
    ELSE 0

\* what an ordering filter on x says of the value v
OrderHolds(w, v) ==
    CASE w.e = "Between" ->
            /\ ByValue(v, literal_to_value(w.low.lit)) >= 0
            /\ ByValue(v, literal_to_value(w.high.lit)) <= 0
      [] w.op = "Lt" -> ByValue(v, literal_to_value(w.right.lit)) < 0
      [] w.op = "Le" -> ByValue(v, literal_to_value(w.right.lit)) <= 0
      [] w.op = "Gt" -> ByValue(v, literal_to_value(w.right.lit)) > 0
      [] w.op = "Ge" -> ByValue(v, literal_to_value(w.right.lit)) >= 0

\* C21: <, <=, >, >= and BETWEEN compare Int with Int, Float with Float,
\* String with String and Int with Float by value and take every other
\* pairing, a missing or null operand included, as level: then < and > are
\* false, <= and >= are true and BETWEEN, inclusive on both bounds, is true;
\* no pairing is an error.
C21_OrderingComparator ==
    (stmt \in OrderStmts) =>
        /\ result.ok
        /\ Range(result.docs) =
              { d \in Range(Collection_list(prev.cols, stmt.from)) :
                    OrderHolds(stmt.where_clause[1], XOf(d)) }

\* `x <= 5.0` kept the document whose x is the integer 5 and a document whose
\* x is not a number
C21_Witness ==
    /\ stmt = Where(EBinaryOp(EField("x"), "Le", ELiteral(LFloat(50))))
    /\ Len(result.docs) = 2
    /\ \E d \in Range(result.docs) : XOf(d) = VInt(5)
    /\ \E d \in Range(result.docs) : XOf(d).t \notin {"Int", "Float"}

(***************************************************************************)
(* Properties of LIKE                                                      *)
(***************************************************************************)
\* the text matches the pattern as a whole: % is any sequence of characters,
\* _ is one character, every other character is itself
RECURSIVE LikeMatches(_, _)
LikeMatches(p, text) ==
    IF p = <<>> THEN text = <<>>
    ELSE IF Head(p) = "%"
    THEN \E n \in 0..Len(text) : LikeMatches(Tail(p), SubSeq(text, n + 1, Len(text)))
    ELSE /\ text # <<>>
         /\ Head(p) = "_" \/ Head(p) = Head(text)
         /\ LikeMatches(Tail(p), Tail(text))

\* the value of field s of the document, null when it has none
SOf(doc) == IF "s" \in DOMAIN doc.fields THEN doc.fields["s"] ELSE Null

\* C22: s LIKE p is true exactly of the documents whose s is a string that
\* matches p as a whole, % being any sequence of characters, _ one character
\* and every other character itself; it is false when s is not a string, and
\* NOT LIKE is the negation.
C22_LikeMatchesWholeString ==
    (stmt \in LikeStmts) =>
        /\ result.ok
        /\ Range(result.docs) =
              { d \in Range(Collection_list(prev.cols, stmt.from)) :
                    (SOf(d).t = "String" /\ LikeMatches(stmt.where_clause[1].pattern, SOf(d).s))
                        # stmt.where_clause[1].negated }

(***************************************************************************)
(* Properties of projection                                                *)
(***************************************************************************)
\* the fields named in the column list
NamedFields(columns) ==
    { columns[i].name : i \in { n \in 1..Len(columns) : columns[n].c = "Field" } }

HasStar(columns) == \E i \in 1..Len(columns) : columns[i].c = "Star"

\* the stored document that a returned document was made from
StoredOf(r) == CHOOSE d \in Range(Collection_list(prev.cols, stmt.from)) : d.id = r.id

\* C23: without * in the column list each returned document keeps its id and
\* body and holds exactly those of the named fields that the stored document
\* has, with their stored values; with * the documents are returned with all
\* fields; the stored documents are unchanged by the SELECT.
C23_Projection ==
    (stmt.op = "Select" /\ result.ok) =>
        /\ cols = prev.cols
        /\ commits = prev.commits
        /\ \A i \in 1..Len(result.docs) :
              LET r == result.docs[i]
              IN /\ \E d \in Range(Collection_list(prev.cols, stmt.from)) : d.id = r.id
                 /\ r.body = StoredOf(r).body
                 /\ IF HasStar(stmt.columns)
                    THEN r.fields = StoredOf(r).fields
                    ELSE /\ DOMAIN r.fields =
                               NamedFields(stmt.columns) \cap DOMAIN StoredOf(r).fields
                         /\ \A f \in DOMAIN r.fields : r.fields[f] = StoredOf(r).fields[f]

\* `SELECT j` returned a document without its k, and a document with a body
C23_Witness ==
    /\ stmt \in SelectProjectStmts
    /\ result.ok
    /\ ~HasStar(stmt.columns)
    /\ \E i \in 1..Len(result.docs) :
          /\ DOMAIN result.docs[i].fields # {}
          /\ DOMAIN result.docs[i].fields # DOMAIN StoredOf(result.docs[i]).fields
    /\ \E i \in 1..Len(result.docs) : result.docs[i].body # <<>>

(***************************************************************************)
(* Properties of schema type checking                                      *)
(***************************************************************************)
\* the pairings of a declared type and a value that the table lists
RECURSIVE Listed(_, _)
Listed(ft, v) ==
    \/ v.t = "Null"
    \/ ft.ft = "Int" /\ (v.t = "Int" \/ (v.t = "Float" /\ v.f % 10 = 0))
    \/ ft.ft = "Float" /\ v.t \in {"Float", "Int"}
    \/ ft.ft \in {"String", "Bool", "Object"} /\ v.t = ft.ft
    \/ ft.ft = "Array" /\ v.t = "Array" /\ \A i \in 1..Len(v.a) : Listed(ft.inner, v.a[i])
    \/ ft.ft = "Ref" /\ v.t = "String"

\* the listed pairings, and a well-formed date or datetime string under Date
\* or DateTime
RECURSIVE ListedOrDate(_, _)
ListedOrDate(ft, v) ==
    \/ v.t = "Null"
    \/ ft.ft = "Int" /\ (v.t = "Int" \/ (v.t = "Float" /\ v.f % 10 = 0))
    \/ ft.ft = "Float" /\ v.t \in {"Float", "Int"}
    \/ ft.ft \in {"String", "Bool", "Object"} /\ v.t = ft.ft
    \/ ft.ft = "Array" /\ v.t = "Array" /\ \A i \in 1..Len(v.a) : ListedOrDate(ft.inner, v.a[i])
    \/ ft.ft = "Ref" /\ v.t = "String"
    \/ ft.ft = "Date" /\ v.t = "String" /\ is_valid_date(v.s)
    \/ ft.ft = "DateTime" /\ v.t = "String" /\ is_valid_datetime(v.s)

DeclaredType == schemas[T].fields["f"].field_type

Validated == stmt.op = "Validate"

\* C24 as stated: a present value of the declared field is accepted exactly
\* when its pairing with the declared type is one of the listed ones, every
\* other pairing is a TypeMismatch naming the field, and a document without
\* the declared field is accepted whatever its other fields.
C24_TypeTable ==
    Validated =>
        IF "f" \in DOMAIN stmt.doc.fields /\ ~Listed(DeclaredType, stmt.doc.fields["f"])
        THEN ~result.ok /\ result.kind = "TypeMismatch" /\ result.field = "f"
        ELSE result.ok

\* C24 amended: as stated, with Date also accepting a string that is a
\* well-formed date and DateTime a string that is a well-formed datetime.
C24_TypeTableWithDates ==
    Validated =>
        IF "f" \in DOMAIN stmt.doc.fields /\ ~ListedOrDate(DeclaredType, stmt.doc.fields["f"])
        THEN ~result.ok /\ result.kind = "TypeMismatch" /\ result.field = "f"
        ELSE result.ok

\* an array of an integer and a string was rejected under Array(Int), and an
\* undeclared field of the wrong shape went unchecked
C24_Witness ==
    /\ Validated
    /\ \/ /\ DeclaredType = TArray(TInt)
          /\ "f" \in DOMAIN stmt.doc.fields
          /\ stmt.doc.fields["f"] = VArray(<<VInt(1), VString(StrNo)>>)
          /\ ~result.ok
       \/ /\ DeclaredType = TArray(TArray(TInt))
          /\ "f" \in DOMAIN stmt.doc.fields
          /\ stmt.doc.fields["f"] = VArray(<<VArray(<<VInt(1)>>)>>)
          /\ result.ok

(***************************************************************************)
(* Properties of CREATE COLLECTION with column definitions                 *)
(***************************************************************************)
\* the query text has been executed on a database without collection t
CreatedFresh == result.kind # "None" /\ T \notin DOMAIN prev.cols

\* C25: CREATE COLLECTION t (f <type> <constraints>) parses and registers a
\* schema whose field f has the field type of the declared data type and
\* required, unique, indexed and default as the constraints say, for every
\* data type.
C25_DeclaredTypesRegistered ==
    \A tt \in TypeTexts, ct \in ConstraintTexts :
        (CreatedFresh /\ query = CreateText(tt.text, ct.text)) =>
            /\ result.ok
            /\ T \in DOMAIN schemas
            /\ schemas[T].fields =
                  [k \in {"f"} |->
                      [field_type |-> tt.ft, required |-> ct.required, unique |-> ct.unique,
                       indexed |-> ct.indexed, default |-> ct.default]]

(***************************************************************************)
(* Properties of stored documents under a schema                           *)
(***************************************************************************)
\* C26: every document stored in a collection that has a registered schema
\* satisfies the schema, after any sequence of INSERT, UPDATE and DELETE.
C26_StoredDocumentsValid ==
    \A c \in DOMAIN cols \cap DOMAIN schemas :
        \A d \in Range(Collection_list(cols, c)) :
            Schema_validate(schemas[c], d) = { [kind |-> "Ok", field |-> ""] }

(***************************************************************************)
(* Properties of the schema registry under DROP COLLECTION                 *)
(***************************************************************************)
\* C27: DROP COLLECTION leaves no schema for the dropped collection in the
\* registry, and a collection newly created without column definitions has
\* no schema (so that no INSERT into it is refused for its field types),
\* also when an earlier collection of its name had one.
C27_NoSchemaAfterDrop ==
    /\ (stmt.op = "DropCollection" /\ result.ok) => stmt.name \notin DOMAIN schemas
    /\ (/\ stmt.op = "CreateCollection"
        /\ result.ok
        /\ stmt.columns = <<>>
        /\ stmt.name \notin DOMAIN prev.cols) => stmt.name \notin DOMAIN schemas

(***************************************************************************)
(* Properties of CREATE VIEW on an existing view, and of DROP VIEW         *)
(***************************************************************************)
\* a CREATE VIEW statement whose names all pass validation
ValidCreateView ==
    /\ stmt.op = "CreateView"
    /\ validate_view_name(stmt.name) = "Ok"
    /\ validate_collection_name(stmt.query.from) = "Ok"
    /\ stmt.template = None \/ validate_template_name(stmt.template[1]) = "Ok"

\* C28: on an existing view, CREATE VIEW without IF NOT EXISTS fails with an
\* already-exists error and CREATE VIEW IF NOT EXISTS succeeds, and either
\* way the stored definition is the same afterwards as before; DROP VIEW of
\* an existing view removes its definition, and DROP VIEW of a view that
\* does not exist fails.
C28_ExistingViewKept ==
    /\ (ValidCreateView /\ stmt.name \in DOMAIN prev.views) =>
          /\ IF stmt.if_not_exists
             THEN result.ok
             ELSE ~result.ok /\ result.kind = "ViewExists"
          /\ stmt.name \in DOMAIN views
          /\ views[stmt.name] = prev.views[stmt.name]
    /\ (stmt.op = "DropView" /\ stmt.name \in DOMAIN prev.views) =>
          result.ok /\ stmt.name \notin DOMAIN views
    /\ (stmt.op = "DropView" /\ stmt.name \notin DOMAIN prev.views) =>
          ~result.ok /\ views = prev.views

(***************************************************************************)
(* Properties of ORDER BY against the comparison of the filter             *)
(***************************************************************************)
\* C29: of two documents returned by SELECT ... ORDER BY f ASC, the earlier
\* one's f is not greater than the later one's under the comparator of the
\* filter, for integer, float and string values of f, an integer compared
\* with a float included.
C29_OrderByAgreesWithFilter ==
    (stmt \in OrderByStmts /\ stmt.order_by[1].direction = "Asc" /\ result.ok) =>
        \A i, j \in 1..Len(result.docs) :
            (/\ i < j
             /\ "f" \in DOMAIN result.docs[i].fields
             /\ "f" \in DOMAIN result.docs[j].fields) =>
                ~(filter_compare_values(RValue(result.docs[i].fields["f"]),
                                        RValue(result.docs[j].fields["f"])) > 0)

(***************************************************************************)
(* Properties of what UPDATE leaves alone                                  *)
(***************************************************************************)
\* the columns named in the SET clauses of the statement
NamedInSet == { stmt.set[i].column : i \in 1..Len(stmt.set) }

\* the ids of the documents of a collection, in scan order
IdsOf(cs, name) == [i \in 1..Len(cs[name]) |-> cs[name][i].name]

\* C30: UPDATE leaves the ids of the collection's documents as they were,
\* and every document has after the statement the id and the body it had
\* before, every field not named in a SET clause with the value it had, and
\* no field besides these and the named ones; so also when a SET clause
\* names the column id.
C30_UpdateFrame ==
    (stmt.op = "Update" /\ stmt.collection \in DOMAIN prev.cols) =>
        /\ stmt.collection \in DOMAIN cols
        /\ IdsOf(cols, stmt.collection) = IdsOf(prev.cols, stmt.collection)
        /\ \A i \in 1..Len(Collection_list(prev.cols, stmt.collection)) :
              LET before == Collection_list(prev.cols, stmt.collection)[i]
                  after == Collection_list(cols, stmt.collection)[i]
              IN /\ after.id = before.id
                 /\ after.body = before.body
                 /\ DOMAIN after.fields \subseteq DOMAIN before.fields \cup NamedInSet
                 /\ \A f \in DOMAIN before.fields \ NamedInSet :
                       f \in DOMAIN after.fields /\ after.fields[f] = before.fields[f]

\* SET id = 'b' changed a document of another id that has a body and a field
C30_Witness ==
    /\ stmt.op = "Update"
    /\ "id" \in NamedInSet
    /\ result.ok
    /\ \E i \in 1..Len(Collection_list(prev.cols, T)) :
          LET before == Collection_list(prev.cols, T)[i]
              after == Collection_list(cols, T)[i]
          IN /\ before.id # B
             /\ before.body # <<>>
             /\ DOMAIN before.fields # {}
             /\ "id" \notin DOMAIN before.fields
             /\ "id" \in DOMAIN after.fields

====
